---- MODULE Spec2Model ----
(***************************************************************************)
(* Dataset metadata reconciliation engine of MDTF-diagnostics              *)
(* (src/src/xr_parser.py, class DatasetParser).                            *)
(*                                                                         *)
(* Python strings are modelled as sequences of one-character strings, so   *)
(* that case folding, prefix tests and the regular expression of           *)
(* normalize_unit are computed character by character.  Attribute          *)
(* dictionaries are functions from key strings to values.                  *)
(***************************************************************************)
EXTENDS Integers, Sequences, FiniteSets, TLC

VARIABLES
    d,            \* attribute dict of a dataset variable being normalized (attr_d)
    new_attr_d,   \* dict receiving the normalized attributes
    our_var,      \* the framework's record of the expected variable (attribute dict)
    ds_var,       \* the dataset variable compared against: [name, attrs]
    skip_units,   \* DatasetParser.skip_units
    call,         \* the last method call: its name, arguments and the state it started in
    ret,          \* value returned by the last call (None when it raised)
    logged,       \* levels of the messages the last call wrote to self.log
    exc,          \* exception raised by the last call (NoExc when it returned)
    dataset,      \* the xarray Dataset handed to parse (ds)
    attrs_backup, \* DatasetParser.attrs_backup
    var_attrs_restore, \* DatasetParser.var_attrs_restore
    translated_var, \* the expected variable with its coordinates (var.translation)
    pc,           \* the statement of the running method that executes next
    hist          \* what earlier steps of the running method saw and did

\* the state of one call of parse
parse_vars == <<dataset, attrs_backup, var_attrs_restore, translated_var, pc, hist>>

vars == <<d, new_attr_d, our_var, ds_var, skip_units, call, ret, logged, exc, parse_vars>>

----------------------------------------------------------------------------
(* Strings *)

\* "name"
k_name ==
    <<"n", "a", "m", "e">>
\* "units"
k_units ==
    <<"u", "n", "i", "t", "s">>
\* "Units"
k_Units ==
    <<"U", "n", "i", "t", "s">>
\* "UNITS"
k_UNITS ==
    <<"U", "N", "I", "T", "S">>
\* "unit_string"
k_unit_string ==
    <<"u", "n", "i", "t", "_", "s", "t", "r", "i", "n", "g">>
\* "unit"
k_unit ==
    <<"u", "n", "i", "t">>
\* "standard_name"
k_standard_name ==
    <<"s", "t", "a", "n", "d", "a", "r", "d", "_", "n", "a", "m", "e">>
\* "Standard_Name"
k_Standard_Name ==
    <<"S", "t", "a", "n", "d", "a", "r", "d", "_", "N", "a", "m", "e">>
\* "standard"
k_standard ==
    <<"s", "t", "a", "n", "d", "a", "r", "d">>
\* "calendar"
k_calendar ==
    <<"c", "a", "l", "e", "n", "d", "a", "r">>
\* "Calendar"
k_Calendar ==
    <<"C", "a", "l", "e", "n", "d", "a", "r">>
\* "cal"
k_cal ==
    <<"c", "a", "l">>
\* "mb"
u_mb ==
    <<"m", "b">>
\* "5 mb"
u_5_mb ==
    <<"5", " ", "m", "b">>
\* "number"
u_number ==
    <<"n", "u", "m", "b", "e", "r">>
\* "kmb"
u_kmb ==
    <<"k", "m", "b">>
\* "K"
u_K ==
    <<"K">>
\* "kg m-2 s-1"
u_kg_m2_s1 ==
    <<"k", "g", " ", "m", "-", "2", " ", "s", "-", "1">>
\* "mm/day"
u_mm_day ==
    <<"m", "m", "/", "d", "a", "y">>
\* "kg/m2/s"
u_kg_per_m2_per_s ==
    <<"k", "g", "/", "m", "2", "/", "s">>
\* "millibar"
s_millibar ==
    <<"m", "i", "l", "l", "i", "b", "a", "r">>
\* "pr"
n_pr ==
    <<"p", "r">>
\* "PRECT"
n_PRECT ==
    <<"P", "R", "E", "C", "T">>
\* "precipitation_flux"
n_precipitation_flux ==
    <<"p", "r", "e", "c", "i", "p", "i", "t", "a", "t", "i", "o", "n", "_", "f", "l", "u", "x">>
\* "rainfall_flux"
n_rainfall_flux ==
    <<"r", "a", "i", "n", "f", "a", "l", "l", "_", "f", "l", "u", "x">>
\* "gregorian"
c_gregorian ==
    <<"g", "r", "e", "g", "o", "r", "i", "a", "n">>
\* "standard"
c_standard ==
    <<"s", "t", "a", "n", "d", "a", "r", "d">>
\* "proleptic_gregorian"
c_proleptic_gregorian ==
    <<"p", "r", "o", "l", "e", "p", "t", "i", "c", "_", "g", "r", "e", "g", "o", "r", "i", "a", "n">>
\* "julian"
c_julian ==
    <<"j", "u", "l", "i", "a", "n">>
\* "noleap"
c_noleap ==
    <<"n", "o", "l", "e", "a", "p">>
\* "365_day"
c_365_day ==
    <<"3", "6", "5", "_", "d", "a", "y">>
\* "all_leap"
c_all_leap ==
    <<"a", "l", "l", "_", "l", "e", "a", "p">>
\* "366_day"
c_366_day ==
    <<"3", "6", "6", "_", "d", "a", "y">>
\* "360_day"
c_360_day ==
    <<"3", "6", "0", "_", "d", "a", "y">>
\* "none"
c_none ==
    <<"n", "o", "n", "e">>
\* "Gregorian"
c_Gregorian ==
    <<"G", "r", "e", "g", "o", "r", "i", "a", "n">>
\* "GREGORIAN"
c_GREGORIAN ==
    <<"G", "R", "E", "G", "O", "R", "I", "A", "N">>
\* "lunar"
c_lunar ==
    <<"l", "u", "n", "a", "r">>

----------------------------------------------------------------------------
(* Characters *)

UpperLetters ==
    <<"A","B","C","D","E","F","G","H","I","J","K","L","M",
      "N","O","P","Q","R","S","T","U","V","W","X","Y","Z">>

LowerLetters ==
    <<"a","b","c","d","e","f","g","h","i","j","k","l","m",
      "n","o","p","q","r","s","t","u","v","w","x","y","z">>

Digits ==
    {"0","1","2","3","4","5","6","7","8","9"}

Range(f) ==
    {f[i] : i \in DOMAIN f}

\* [a-zA-Z]
Letters ==
    Range(UpperLetters) \cup Range(LowerLetters)

IsLetter(c) ==
    c \in Letters

\* the lower-case letter of each upper-case letter
LowerOf ==
    [c \in Range(UpperLetters) |->
        LowerLetters[CHOOSE i \in DOMAIN UpperLetters : UpperLetters[i] = c]]

\* str.lower() on one character
LowerChar(c) ==
    IF c \in DOMAIN LowerOf THEN LowerOf[c] ELSE c

\* str.lower()
lower(s) ==
    [i \in DOMAIN s |-> LowerChar(s[i])]

\* [a-z0-9]
LowerAlnum ==
    Range(LowerLetters) \cup Digits

IsLowerAlnum(c) ==
    c \in LowerAlnum

\* str.startswith
startswith(x, y) ==
    /\ Len(y) <= Len(x)
    /\ SubSeq(x, 1, Len(y)) = y

----------------------------------------------------------------------------
(* Values that are not strings *)

\* the sentinel object for attributes that are expected but absent
ATTR_NOT_FOUND ==
    <<"<AttrNotFound>">>

\* Python's None
None ==
    <<"<None>">>

\* Python truthiness of an attribute value: None and the empty string are
\* falsy, the sentinel object and every non-empty string are truthy
Truthy(v) ==
    v # None /\ v # <<>>

\* str(v)
str(v) ==
    IF v = None THEN <<"N", "o", "n", "e">>
    ELSE IF v = ATTR_NOT_FOUND THEN <<"A", "t", "t", "r", "N", "o", "t", "F", "o", "u", "n", "d">>
    ELSE v

----------------------------------------------------------------------------
(* Dictionaries *)

EmptyDict ==
    [k \in {} |-> None]

\* d[k] = v
Put(dict, k, v) ==
    [x \in DOMAIN dict \cup {k} |-> IF x = k THEN v ELSE dict[x]]

\* del d[k]
Del(dict, k) ==
    [x \in DOMAIN dict \ {k} |-> dict[x]]

\* d.get(k, default)
Get(dict, k, default) ==
    IF k \in DOMAIN dict THEN dict[k] ELSE default

----------------------------------------------------------------------------
(* Outcomes of a call *)

NoExc ==
    [type |-> "none", msg |-> "none"]

\* self.log inside a @staticmethod: the name self is not bound
NameErrorSelf ==
    [type |-> "NameError", msg |-> "name 'self' is not defined"]

Return(v) ==
    [ret |-> v, exc |-> NoExc]

Raise(e) ==
    [ret |-> None, exc |-> e]

----------------------------------------------------------------------------
(* Attribute normalizer *)

_cf_calendars ==
    {c_gregorian, c_standard, c_proleptic_gregorian, c_julian, c_noleap,
     c_365_day, c_all_leap, c_366_day, c_360_day, c_none}

\* DatasetParser.fallback_cal
fallback_cal ==
    c_proleptic_gregorian

\* re.sub(r'[^a-z0-9]+', '', s.lower())
str_munge(s) ==
    SelectSeq(lower(s), IsLowerAlnum)

\* the comparison functions passed to guess_attr: None (defaults to ==),
\* and lambda x,y: x.startswith(y)
comparison_func_call(comparison_func, x, y) ==
    IF comparison_func = "startswith" THEN startswith(x, y) ELSE x = y

\* guess_attr is a @staticmethod, so both self.log.debug lines raise NameError
\* before the statement after them runs
guess_attr(attr_name, options, default, comparison_func) ==
    LET exact == {opt \in options : comparison_func_call(comparison_func, opt, attr_name)}
        test_count == Cardinality(exact)
        munged_opts == {opt \in options :
            comparison_func_call(comparison_func, str_munge(opt), str_munge(attr_name))}
    IN  IF test_count > 1 THEN Raise(NameErrorSelf)
        ELSE IF test_count >= 1 THEN Return(attr_name)
        ELSE IF Cardinality(munged_opts) = 1 THEN Raise(NameErrorSelf)
        ELSE IF default # None THEN Return(default)
        ELSE Raise([type |-> "KeyError", msg |-> "attr_name"])

\* result of normalize_attr: the target dict and the exception that escaped
normalize_attr(target, source, key_name, key_startswith) ==
    LET first == guess_attr(key_name, DOMAIN source, None, "None")
        second == guess_attr(key_startswith, DOMAIN source, None, "startswith")
        escaped ==
            IF first.exc.type # "KeyError" THEN first.exc
            ELSE IF key_startswith = None THEN NoExc
            ELSE IF second.exc.type # "KeyError" THEN second.exc
            ELSE NoExc
        k ==
            IF first.exc = NoExc THEN first.ret
            ELSE IF key_startswith = None THEN None
            ELSE IF second.exc = NoExc THEN second.ret
            ELSE None
    IN  IF escaped # NoExc THEN [new_attr_d |-> target, exc |-> escaped]
        ELSE IF k = None
            THEN [new_attr_d |-> Put(target, key_name, ATTR_NOT_FOUND), exc |-> NoExc]
        ELSE IF k # key_name
            THEN [new_attr_d |-> Put(target, key_name, Get(source, k, ATTR_NOT_FOUND)),
                  exc |-> NoExc]
        ELSE [new_attr_d |-> Put(target, key_name, source[key_name]), exc |-> NoExc]

normalize_standard_name(target, source) ==
    normalize_attr(target, source, k_standard_name, k_standard)

\* the pattern (?<![^a-zA-Z])([mM][bB])(?![^a-zA-Z]) matches at position i:
\* the negated character classes inside the negative look-arounds reject a
\* neighbouring character that is NOT a letter
mb_matches(s, i) ==
    /\ i + 1 <= Len(s)
    /\ s[i] \in {"m", "M"}
    /\ s[i + 1] \in {"b", "B"}
    /\ ~ (i > 1 /\ ~ IsLetter(s[i - 1]))
    /\ ~ (i + 2 <= Len(s) /\ ~ IsLetter(s[i + 2]))

\* re.sub(pattern, "millibar", s) scanning from position i
RECURSIVE re_sub_mb(_, _)
re_sub_mb(s, i) ==
    IF i > Len(s) THEN <<>>
    ELSE IF mb_matches(s, i) THEN s_millibar \o re_sub_mb(s, i + 2)
    ELSE <<s[i]>> \o re_sub_mb(s, i + 1)

normalize_unit(target, source) ==
    LET r == normalize_attr(target, source, k_units, k_unit)
    IN  IF r.exc # NoExc THEN r
        ELSE IF r.new_attr_d[k_units] # ATTR_NOT_FOUND
            THEN [new_attr_d |-> Put(r.new_attr_d, k_units, re_sub_mb(r.new_attr_d[k_units], 1)),
                  exc |-> NoExc]
        ELSE r

\* normalize_calendar works on attr_d in place: result is attr_d afterwards
normalize_calendar(attr_d) ==
    LET r == normalize_attr(attr_d, attr_d, k_calendar, k_cal)
        g == guess_attr(r.new_attr_d[k_calendar], _cf_calendars, fallback_cal, "None")
    IN  IF r.exc # NoExc THEN [attr_d |-> r.new_attr_d, exc |-> r.exc]
        ELSE IF r.new_attr_d[k_calendar] = ATTR_NOT_FOUND
            THEN [attr_d |-> Del(r.new_attr_d, k_calendar), exc |-> NoExc]
        ELSE IF g.exc # NoExc THEN [attr_d |-> r.new_attr_d, exc |-> g.exc]
        ELSE [attr_d |-> Put(r.new_attr_d, k_calendar, g.ret), exc |-> NoExc]

----------------------------------------------------------------------------
(* Unit predicates of the units module *)

\* a cfunits Units object made from the unit string s
UnitsObject(s) ==
    <<"<Units>">> \o s

IsUnitsObject(u) ==
    Len(u) > 0 /\ u[1] = "<Units>"

\* the unit string a value stands for
UnitString(u) ==
    IF IsUnitsObject(u) THEN Tail(u) ELSE u

\* physical dimension and scale of the unit strings of the model
UnitDef(u) ==
    CASE UnitString(u) = u_kg_m2_s1 -> [dim |-> <<"mass_flux">>, scale |-> u_kg_m2_s1]
      [] UnitString(u) = u_kg_per_m2_per_s -> [dim |-> <<"mass_flux">>, scale |-> u_kg_m2_s1]
      [] UnitString(u) = u_mm_day -> [dim |-> <<"mass_flux">>, scale |-> u_mm_day]
      [] UnitString(u) = u_K -> [dim |-> <<"temperature">>, scale |-> u_K]
      [] OTHER -> [dim |-> UnitString(u), scale |-> UnitString(u)]

\* units.units_equivalent: the units measure the same physical quantity
units_equivalent(x, y) ==
    UnitDef(x).dim = UnitDef(y).dim

\* units.units_equal: equivalent, with conversion factor one
units_equal(x, y) ==
    UnitDef(x) = UnitDef(y)

\* units.to_cfunits: coerce a unit string to a Units object
to_cfunits(u) ==
    IF IsUnitsObject(u) THEN u ELSE UnitsObject(u)

----------------------------------------------------------------------------
(* Attribute reconciler *)

\* units_equivalent on two (value, units) pairs: the units module turns each
\* into a quantity and compares the physical dimension
quantity_equivalent(x, y) ==
    units_equivalent(x[2], y[2])

\* units_equal(x, y, rtol=1.0e-5) on two (value, units) pairs
quantity_equal(x, y) ==
    x[1] = y[1] /\ units_equal(x[2], y[2])

\* the comparison functions passed to compare_attr
compare_call(comparison_func, x, y) ==
    CASE comparison_func = "units_equivalent" -> units_equivalent(x, y)
      [] comparison_func = "units_equal" -> units_equal(x, y)
      [] comparison_func = "quantity_equivalent" -> quantity_equivalent(x, y)
      [] comparison_func = "quantity_equal" -> quantity_equal(x, y)
      [] OTHER -> x = y

\* setattr(var, attr_name, value)
setattr(var, attr_name, value) ==
    Put(var, attr_name, value)

\* a mismatch that raises without correcting our side
compare_attr_mismatch_no_update(our, ds, our_attr_name, ds_attr, can_update_our_var) ==
    [our_var |-> our,
     ds_var |-> ds,
     exc |-> [type |-> "ValueError", msg |-> "found unexpected"]]

\* lines 577-583: both attributes present and comparison_func says they differ
compare_attr_mismatch(our, ds, our_attr_name, ds_attr, can_update_our_var) ==
    [our_var |-> IF can_update_our_var THEN setattr(our, our_attr_name, ds_attr) ELSE our,
     ds_var |-> ds,
     exc |-> [type |-> "ValueError", msg |-> "found unexpected"]]

\* a passed comparison that still copies the dataset's value to our side
compare_attr_match_sync(our, ds, our_attr_name, ds_attr) ==
    [our_var |-> setattr(our, our_attr_name, ds_attr), ds_var |-> ds, exc |-> NoExc]

\* lines 584-586: both attributes present and the comparison passed
compare_attr_match(our, ds, our_attr_name, ds_attr) ==
    [our_var |-> our, ds_var |-> ds, exc |-> NoExc]

\* compare_attr is a @staticmethod: its self.log lines raise NameError.
\* Result: both objects as the call leaves them, and the exception raised.
compare_attr(our, our_attr_name, our_attr, ds, ds_attr_name, ds_attr, comparison_func, update_our_var, update_ds, tiebreaker) ==
    LET can_update_our_var == update_our_var /\ ds_attr # ATTR_NOT_FOUND
        unchanged(e) == [our_var |-> our, ds_var |-> ds, exc |-> e]
    IN  IF tiebreaker \notin {"None", "our_var", "ds"}
            THEN unchanged([type |-> "ValueError", msg |-> "tiebreaker"])
        ELSE IF ds_attr = ATTR_NOT_FOUND \/ ~ Truthy(ds_attr)
            THEN IF update_ds
                 THEN unchanged(NameErrorSelf)
                 ELSE unchanged([type |-> "TypeError", msg |-> "not found in dataset"])
        ELSE IF ~ Truthy(our_attr)
            THEN IF can_update_our_var
                 THEN IF ~ (our_attr_name = k_name /\ our[k_name] = ds_attr)
                      THEN unchanged(NameErrorSelf)
                      ELSE [our_var |-> setattr(our, our_attr_name, ds_attr),
                            ds_var |-> ds, exc |-> NoExc]
                 ELSE unchanged([type |-> "TypeError", msg |-> "not set but present in dataset"])
        ELSE IF ~ compare_call(comparison_func, our_attr, ds_attr)
            THEN compare_attr_mismatch(our, ds, our_attr_name, ds_attr, can_update_our_var)
        ELSE compare_attr_match(our, ds, our_attr_name, ds_attr)

reconcile_attr(our, ds, our_attr_name, comparison_func, update_our_var, update_ds) ==
    compare_attr(our, our_attr_name, our[our_attr_name],
                 ds, our_attr_name, Get(ds.attrs, our_attr_name, ATTR_NOT_FOUND),
                 comparison_func, update_our_var, update_ds, "None")

\* check_unit: the exception it raises, if any
check_unit(ds, skip) ==
    IF Get(ds.attrs, k_units, ATTR_NOT_FOUND) = ATTR_NOT_FOUND /\ ~ skip
    THEN [type |-> "TypeError", msg |-> "units not found on variable"]
    ELSE NoExc

\* what check_unit logs
check_unit_log(ds, skip) ==
    IF Get(ds.attrs, k_units, ATTR_NOT_FOUND) = ATTR_NOT_FOUND /\ skip
    THEN <<"warning">> ELSE <<>>

\* reconcile_units whose equality pass does not update our side
reconcile_units_keep_ours(our, ds, skip) ==
    LET c == check_unit(ds, skip)
        l == check_unit_log(ds, skip)
        r1 == reconcile_attr(our, ds, k_units, "units_equivalent", TRUE, skip)
        r2 == reconcile_attr(r1.our_var, r1.ds_var, k_units, "units_equal", FALSE, skip)
    IN  IF c # NoExc THEN [our_var |-> our, ds_var |-> ds, exc |-> c, logged |-> l]
        ELSE IF r1.exc # NoExc
            THEN [our_var |-> r1.our_var, ds_var |-> r1.ds_var, exc |-> r1.exc, logged |-> l]
        ELSE IF r2.exc.type = "ValueError"
            THEN [our_var |-> Put(r2.our_var, k_units, to_cfunits(r2.our_var[k_units])),
                  ds_var |-> r2.ds_var, exc |-> NoExc, logged |-> l \o <<"warning">>]
        ELSE [our_var |-> r2.our_var, ds_var |-> r2.ds_var, exc |-> r2.exc, logged |-> l]

\* reconcile_units is called from parse through reconcile_variable, after
\* parse has set self.log.  Result: both objects, the exception raised and
\* the levels of the messages logged.
reconcile_units(our, ds, skip) ==
    LET c == check_unit(ds, skip)
        l == check_unit_log(ds, skip)
        r1 == reconcile_attr(our, ds, k_units, "units_equivalent", TRUE, skip)
        r2 == reconcile_attr(r1.our_var, r1.ds_var, k_units, "units_equal", TRUE, skip)
    IN  IF c # NoExc THEN [our_var |-> our, ds_var |-> ds, exc |-> c, logged |-> l]
        ELSE IF r1.exc # NoExc
            THEN [our_var |-> r1.our_var, ds_var |-> r1.ds_var, exc |-> r1.exc, logged |-> l]
        ELSE IF r2.exc.type = "ValueError"
            THEN [our_var |-> Put(r2.our_var, k_units, to_cfunits(r2.our_var[k_units])),
                  ds_var |-> r2.ds_var, exc |-> NoExc, logged |-> l \o <<"warning">>]
        ELSE [our_var |-> r2.our_var, ds_var |-> r2.ds_var, exc |-> r2.exc, logged |-> l]

----------------------------------------------------------------------------
(* Inputs *)

\* largest number of attributes of a dataset variable
MaxKeys == 2

UnitKeys ==
    {k_units, k_Units, k_UNITS, k_unit_string}

UnitVals ==
    {u_mb, u_5_mb, u_number, u_kmb}

StdKeys ==
    {k_standard_name, k_Standard_Name}

StdVals ==
    {n_precipitation_flux}

CalKeys ==
    {k_calendar, k_Calendar}

CalVals ==
    {c_gregorian, c_Gregorian, c_GREGORIAN, c_standard, c_noleap, c_365_day, c_lunar}

\* the values an attribute with key k may hold in an input file
ValsFor(k) ==
    IF k \in UnitKeys THEN UnitVals
    ELSE IF k \in StdKeys THEN StdVals
    ELSE CalVals

\* attribute dicts of input variables, already stripped of white space
SourceDicts ==
    UNION {
        {f \in [K -> UnitVals \cup StdVals \cup CalVals] : \A k \in K : f[k] \in ValsFor(k)} :
        K \in {S \in SUBSET (UnitKeys \cup StdKeys \cup CalKeys) : Cardinality(S) <= MaxKeys}
    }

\* the framework's records of the expected variable
OurVars ==
    {[k \in {k_name, k_standard_name, k_units} |->
        IF k = k_name THEN n ELSE IF k = k_standard_name THEN s ELSE u] :
        n \in {n_pr},
        s \in {n_precipitation_flux, <<>>},
        u \in {u_kg_m2_s1, u_K, <<>>}}

\* attribute dicts of the dataset variable that is compared against
DsAttrs ==
    UNION {
        {f \in [K -> {n_precipitation_flux, n_rainfall_flux, u_kg_m2_s1,
                      u_kg_per_m2_per_s, u_mm_day, <<>>}] :
            /\ k_standard_name \in K => f[k_standard_name] \in {n_precipitation_flux, n_rainfall_flux}
            /\ k_units \in K => f[k_units] \in {u_kg_m2_s1, u_kg_per_m2_per_s, u_mm_day, <<>>}} :
        K \in SUBSET {k_standard_name, k_units}
    }

DsVars ==
    [name : {n_pr, n_PRECT}, attrs : DsAttrs]

NoCall ==
    [op |-> "none", args |-> <<>>, d |-> EmptyDict, new_attr_d |-> EmptyDict,
     our_var |-> EmptyDict, ds_var |-> EmptyDict]

\* the call op(args) made in the current state
Calling(op, args) ==
    [op |-> op, args |-> args, d |-> d, new_attr_d |-> new_attr_d,
     our_var |-> our_var, ds_var |-> ds_var]

\* no call of parse is under way
NoParse ==
    /\ dataset = EmptyDict
    /\ attrs_backup = EmptyDict
    /\ var_attrs_restore = EmptyDict
    /\ translated_var = EmptyDict
    /\ pc = "none"
    /\ hist = EmptyDict

----------------------------------------------------------------------------
(* The normalizer's methods, called on the attributes of one variable *)

InitNormalizer ==
    /\ d \in SourceDicts
    /\ new_attr_d = EmptyDict
    /\ our_var = CHOOSE o \in OurVars : o[k_name] = n_pr /\ o[k_units] = u_K /\ o[k_standard_name] = <<>>
    /\ ds_var = [name |-> n_pr, attrs |-> EmptyDict]
    /\ skip_units = FALSE
    /\ call = NoCall
    /\ ret = None
    /\ logged = <<>>
    /\ exc = NoExc
    /\ NoParse

\* guess_attr(desc, attr_name, d.keys(), ...): search the keys of d
GuessKey ==
    \E attr_name \in {k_units, k_unit, k_standard_name, k_standard, k_calendar, k_cal},
       default \in {None, ATTR_NOT_FOUND},
       comparison_func \in {"None", "startswith"} :
        LET r == guess_attr(attr_name, DOMAIN d, default, comparison_func)
        IN  /\ exc = NoExc
            /\ call' = Calling("guess_attr",
                    [attr_name |-> attr_name, options |-> DOMAIN d, default |-> default,
                     comparison_func |-> comparison_func])
            /\ ret' = r.ret
            /\ logged' = <<>>
            /\ exc' = r.exc
            /\ UNCHANGED <<d, new_attr_d, our_var, ds_var, skip_units, parse_vars>>

\* guess_attr('calendar', value, _cf_calendars, ...): search the vocabulary
GuessCalendar ==
    \E attr_name \in CalVals,
       default \in {None, fallback_cal} :
        LET r == guess_attr(attr_name, _cf_calendars, default, "None")
        IN  /\ exc = NoExc
            /\ call' = Calling("guess_attr",
                    [attr_name |-> attr_name, options |-> _cf_calendars, default |-> default,
                     comparison_func |-> "None"])
            /\ ret' = r.ret
            /\ logged' = <<>>
            /\ exc' = r.exc
            /\ UNCHANGED <<d, new_attr_d, our_var, ds_var, skip_units, parse_vars>>

NextGuess ==
    \/ GuessKey
    \/ GuessCalendar

SpecGuess ==
    InitNormalizer /\ [][NextGuess]_vars

NormalizeAttr ==
    \E key_name \in {k_units, k_standard_name, k_calendar},
       key_startswith \in {None, k_unit, k_standard, k_cal} :
        LET r == normalize_attr(new_attr_d, d, key_name, key_startswith)
        IN  /\ exc = NoExc
            /\ call' = Calling("normalize_attr",
                    [key_name |-> key_name, key_startswith |-> key_startswith])
            /\ new_attr_d' = r.new_attr_d
            /\ ret' = None
            /\ logged' = <<>>
            /\ exc' = r.exc
            /\ UNCHANGED <<d, our_var, ds_var, skip_units, parse_vars>>

NormalizeStandardName ==
    LET r == normalize_standard_name(new_attr_d, d)
    IN  /\ exc = NoExc
        /\ call' = Calling("normalize_standard_name", <<>>)
        /\ new_attr_d' = r.new_attr_d
        /\ ret' = None
        /\ logged' = <<>>
        /\ exc' = r.exc
        /\ UNCHANGED <<d, our_var, ds_var, skip_units, parse_vars>>

NormalizeUnit ==
    LET r == normalize_unit(new_attr_d, d)
    IN  /\ exc = NoExc
        /\ call' = Calling("normalize_unit", <<>>)
        /\ new_attr_d' = r.new_attr_d
        /\ ret' = None
        /\ logged' = <<>>
        /\ exc' = r.exc
        /\ UNCHANGED <<d, our_var, ds_var, skip_units, parse_vars>>

NormalizeCalendar ==
    LET r == normalize_calendar(d)
    IN  /\ exc = NoExc
        /\ call' = Calling("normalize_calendar", <<>>)
        /\ d' = r.attr_d
        /\ ret' = None
        /\ logged' = <<>>
        /\ exc' = r.exc
        /\ UNCHANGED <<new_attr_d, our_var, ds_var, skip_units, parse_vars>>

NextNormalizer ==
    \/ NormalizeAttr
    \/ NormalizeStandardName
    \/ NormalizeUnit
    \/ NormalizeCalendar

SpecNormalizer ==
    InitNormalizer /\ [][NextNormalizer]_vars

----------------------------------------------------------------------------
(* The reconciler's methods, called on one expected variable and one       *)
(* dataset variable                                                        *)

\* DatasetParser.__init__: self.skip_units is read from config, which is an
\* empty dict whatever the caller asked for
init_skip_units(disable_unit_checks) ==
    LET config == EmptyDict
    IN  Get(config, "disable_unit_checks", FALSE)

\* hist holds the setting of disable_unit_checks the caller asked for
InitReconciler ==
    /\ d = EmptyDict
    /\ new_attr_d = EmptyDict
    /\ our_var \in OurVars
    /\ ds_var \in DsVars
    /\ hist \in [disable_unit_checks : BOOLEAN]
    /\ skip_units = init_skip_units(hist.disable_unit_checks)
    /\ call = NoCall
    /\ ret = None
    /\ logged = <<>>
    /\ exc = NoExc
    /\ dataset = EmptyDict
    /\ attrs_backup = EmptyDict
    /\ var_attrs_restore = EmptyDict
    /\ translated_var = EmptyDict
    /\ pc = "none"

CompareAttr ==
    \E attr_name \in {k_name, k_standard_name, k_units},
       forced \in BOOLEAN,
       update_our_var \in BOOLEAN,
       update_ds \in BOOLEAN,
       tiebreaker \in {"None", "our_var", "ds"} :
      \E comparison_func \in
            IF attr_name = k_units THEN {"None", "units_equivalent", "units_equal"} ELSE {"None"} :
        LET our_attr == IF forced THEN <<>> ELSE our_var[attr_name]
            ds_attr == IF attr_name = k_name THEN ds_var.name
                       ELSE Get(ds_var.attrs, attr_name, ATTR_NOT_FOUND)
            r == compare_attr(our_var, attr_name, our_attr, ds_var, attr_name, ds_attr,
                              comparison_func, update_our_var, update_ds, tiebreaker)
        IN  /\ exc = NoExc
            /\ call' = Calling("compare_attr",
                    [our_attr_name |-> attr_name, our_attr |-> our_attr,
                     ds_attr_name |-> attr_name, ds_attr |-> ds_attr,
                     comparison_func |-> comparison_func, update_our_var |-> update_our_var,
                     update_ds |-> update_ds, tiebreaker |-> tiebreaker])
            /\ our_var' = r.our_var
            /\ ds_var' = r.ds_var
            /\ ret' = None
            /\ logged' = <<>>
            /\ exc' = r.exc
            /\ UNCHANGED <<d, new_attr_d, skip_units, parse_vars>>

ReconcileUnits ==
    LET r == reconcile_units(our_var, ds_var, skip_units)
    IN  /\ exc = NoExc
        /\ call' = Calling("reconcile_units", <<>>)
        /\ our_var' = r.our_var
        /\ ds_var' = r.ds_var
        /\ ret' = None
        /\ logged' = r.logged
        /\ exc' = r.exc
        /\ UNCHANGED <<d, new_attr_d, skip_units, parse_vars>>

NextReconciler ==
    \/ CompareAttr
    \/ ReconcileUnits

SpecReconciler ==
    InitReconciler /\ [][NextReconciler]_vars

----------------------------------------------------------------------------
(* Properties of compare_attr and reconcile_units *)

\* the last call was compare_attr
CalledCompareAttr ==
    call.op = "compare_attr"

\* the value passed for the dataset's side is the sentinel or empty
DsAttrMissing ==
    call.args.ds_attr = ATTR_NOT_FOUND \/ ~ Truthy(call.args.ds_attr)

\* the value passed for our side is empty or unset
OurAttrUnset ==
    ~ Truthy(call.args.our_attr)

\* comparison_func(our_attr, ds_attr) of the last call
ComparisonPassed ==
    compare_call(call.args.comparison_func, call.args.our_attr, call.args.ds_attr)

\* our record differs from the one the call started with only in attribute a
OurVarChangedOnlyAt(a) ==
    /\ DOMAIN our_var = DOMAIN call.our_var
    /\ \A k \in DOMAIN our_var \ {a} : our_var[k] = call.our_var[k]

C2_MissingInDataset ==
    (CalledCompareAttr /\ DsAttrMissing)
        => IF call.args.update_ds
           THEN /\ exc = NoExc
                /\ ds_var = [call.ds_var EXCEPT !.attrs =
                        Put(@, call.args.ds_attr_name, str(call.args.our_attr))]
                /\ our_var = call.our_var
           ELSE /\ exc = [type |-> "TypeError", msg |-> "not found in dataset"]
                /\ ds_var = call.ds_var
                /\ our_var = call.our_var

\* C3: when the dataset's value is present and ours is unset, compare_attr
\* with update_our_var sets our attribute to the dataset's value and returns,
\* and without it raises the ours-unset error and leaves our attribute alone.
C3_OursUnset ==
    (CalledCompareAttr /\ ~ DsAttrMissing /\ OurAttrUnset)
        => IF call.args.update_our_var
           THEN /\ exc = NoExc
                /\ our_var[call.args.our_attr_name] = call.args.ds_attr
           ELSE /\ exc = [type |-> "TypeError", msg |-> "not set but present in dataset"]
                /\ our_var = call.our_var

\* C4: a call of compare_attr changes at most one of our record and the
\* dataset variable, and when both values are present and the comparison
\* passes it changes neither and raises nothing.
C4_AtMostOneSideChanged ==
    CalledCompareAttr
        => /\ our_var = call.our_var \/ ds_var = call.ds_var
           /\ (~ DsAttrMissing /\ ~ OurAttrUnset /\ ComparisonPassed)
                => (our_var = call.our_var /\ ds_var = call.ds_var /\ exc = NoExc)

\* a comparison that passed on two values that are not the same string
C4_Witness ==
    /\ CalledCompareAttr /\ ~ DsAttrMissing /\ ~ OurAttrUnset /\ ComparisonPassed
    /\ call.args.our_attr # call.args.ds_attr
    /\ call.args.update_our_var
    /\ our_var = call.our_var
    /\ exc = NoExc

\* the last call was reconcile_units on two unit strings that are present
CalledReconcileUnitsBothPresent ==
    /\ call.op = "reconcile_units"
    /\ Truthy(call.our_var[k_units])
    /\ k_units \in DOMAIN call.ds_var.attrs
    /\ Truthy(call.ds_var.attrs[k_units])

\* C5 as stated: equivalent units that are not the same text end with our
\* units set to the canonical form of our own original units, no exception.
C5_EndsAsOurCanonicalUnits ==
    ( /\ CalledReconcileUnitsBothPresent
      /\ units_equivalent(call.our_var[k_units], call.ds_var.attrs[k_units])
      /\ call.our_var[k_units] # call.ds_var.attrs[k_units] )
        => /\ exc = NoExc
           /\ our_var[k_units] = to_cfunits(call.our_var[k_units])

\* C5 amended: equivalent units that units_equal says differ end with our
\* units set to the canonical form of the dataset's units; no exception, one
\* warning logged, the dataset variable unchanged.
C5_EndsAsDatasetCanonicalUnits ==
    ( /\ CalledReconcileUnitsBothPresent
      /\ units_equivalent(call.our_var[k_units], call.ds_var.attrs[k_units])
      /\ ~ units_equal(call.our_var[k_units], call.ds_var.attrs[k_units]) )
        => /\ exc = NoExc
           /\ logged = <<"warning">>
           /\ our_var[k_units] = to_cfunits(call.ds_var.attrs[k_units])
           /\ OurVarChangedOnlyAt(k_units)
           /\ ds_var = call.ds_var

\* expected 'kg m-2 s-1' against the dataset's 'mm/day'
C5_Witness ==
    /\ CalledReconcileUnitsBothPresent
    /\ call.our_var[k_units] = u_kg_m2_s1
    /\ call.ds_var.attrs[k_units] = u_mm_day
    /\ our_var[k_units] = UnitsObject(u_mm_day)
    /\ exc = NoExc

----------------------------------------------------------------------------
(* Properties of the attribute normalizer *)

\* "mb" at position i with no letter before it and no letter after it
mb_word_bounded(s, i) ==
    /\ i + 1 <= Len(s)
    /\ s[i] \in {"m", "M"}
    /\ s[i + 1] \in {"b", "B"}
    /\ ~ (i > 1 /\ IsLetter(s[i - 1]))
    /\ ~ (i + 2 <= Len(s) /\ IsLetter(s[i + 2]))

\* s with every word-bounded "mb" replaced by "millibar", from position i
RECURSIVE SubWordBoundedMb(_, _)
SubWordBoundedMb(s, i) ==
    IF i > Len(s) THEN <<>>
    ELSE IF mb_word_bounded(s, i) THEN s_millibar \o SubWordBoundedMb(s, i + 2)
    ELSE <<s[i]>> \o SubWordBoundedMb(s, i + 1)

\* C6: normalize_unit rewrites "mb" (any case) to "millibar" exactly where
\* neither neighbouring character is a letter: "mb" and "5 mb" come to
\* contain "millibar", "number" and "kmb" stay as they are.
C6_MbRewrittenWhenWordBounded ==
    (call.op = "normalize_unit" /\ exc = NoExc /\ k_units \in DOMAIN call.d)
        => new_attr_d[k_units] = SubWordBoundedMb(call.d[k_units], 1)

\* the last call was guess_attr
CalledGuessAttr ==
    call.op = "guess_attr"

\* the options that comparison_func matches to attr_name as they are
ExactMatches ==
    {opt \in call.args.options :
        comparison_func_call(call.args.comparison_func, opt, call.args.attr_name)}

\* the options that match attr_name after case folding and stripping
FoldedMatches ==
    {opt \in call.args.options :
        comparison_func_call(call.args.comparison_func,
                             str_munge(opt), str_munge(call.args.attr_name))}

\* C7: when no option matches exactly, guess_attr returns the option that
\* matches after folding if there is exactly one; otherwise it returns the
\* default if one was given and raises KeyError if not.
C7_UniqueFoldedMatchReturned ==
    (CalledGuessAttr /\ ExactMatches = {})
        => IF Cardinality(FoldedMatches) = 1
           THEN exc = NoExc /\ ret \in FoldedMatches
           ELSE IF call.args.default # None
           THEN exc = NoExc /\ ret = call.args.default
           ELSE exc.type = "KeyError"

\* C8: a value guess_attr returns that is not the default is one of the
\* options, under equality and under prefix comparison.
C8_ReturnsAnOption ==
    (CalledGuessAttr /\ exc = NoExc /\ ret # call.args.default)
        => ret \in call.args.options

\* the keys of source that normalize_attr is to accept for key_name
AcceptedKeys(source, key_name, key_startswith) ==
    LET folded == {k \in DOMAIN source : str_munge(k) = str_munge(key_name)}
    IN  IF key_name \in DOMAIN source THEN {key_name}
        ELSE IF Cardinality(folded) = 1 THEN folded
        ELSE IF key_startswith # None
            THEN {k \in DOMAIN source : startswith(k, key_startswith)}
        ELSE {}

\* C9: normalize_attr stores under key_name the value source holds under the
\* matched key (exact, else the unique folded match, else a key starting with
\* key_startswith), and the sentinel only when there is no such key.
C9_StoresValueOfMatchedKey ==
    call.op = "normalize_attr"
        => LET keys == AcceptedKeys(call.d, call.args.key_name, call.args.key_startswith)
           IN  /\ exc = NoExc
               /\ call.args.key_name \in DOMAIN new_attr_d
               /\ IF keys = {}
                  THEN new_attr_d[call.args.key_name] = ATTR_NOT_FOUND
                  ELSE new_attr_d[call.args.key_name] \in {call.d[k] : k \in keys}

\* the groups of vocabulary entries that name the same calendar
CalendarSynonyms ==
    {{c_gregorian, c_standard}, {c_noleap, c_365_day}, {c_all_leap, c_366_day}}

\* the vocabulary entries that value v spells
SpelledEntries(v) ==
    {e \in _cf_calendars : str_munge(e) = str_munge(v)}

\* the vocabulary entries that name the same calendar as value v
SameCalendar(v) ==
    SpelledEntries(v) \cup
    UNION {g \in CalendarSynonyms : g \cap SpelledEntries(v) # {}}

\* C10: normalize_calendar ends every spelling and synonym of a calendar as
\* the entry its other names end as, always inside the vocabulary, and a
\* value that spells no entry as the fallback calendar.
C10_OneEntryPerCalendar ==
    (call.op = "normalize_calendar" /\ k_calendar \in DOMAIN call.d)
        => /\ exc = NoExc
           /\ d[k_calendar] \in _cf_calendars
           /\ \A w \in SameCalendar(call.d[k_calendar]) :
                LET other == normalize_calendar(Put(call.d, k_calendar, w))
                IN  other.exc = NoExc /\ d[k_calendar] = other.attr_d[k_calendar]
           /\ SpelledEntries(call.d[k_calendar]) = {} => d[k_calendar] = fallback_cal

----------------------------------------------------------------------------
(* Backup and restoration of attributes around the external decode step *)

\* "units " (a key with trailing white space)
k_units_sp ==
    <<"u", "n", "i", "t", "s", " ">>

\* " K" (a value with leading white space)
u_K_sp ==
    <<" ", "K">>

\* "noleap " (a value with trailing white space)
c_noleap_sp ==
    <<"n", "o", "l", "e", "a", "p", " ">>

\* "time"
n_time ==
    <<"t", "i", "m", "e">>

\* a value the external decode step put in place of an attribute's value
a_decoded ==
    <<"d", "e", "c", "o", "d", "e", "d">>

\* the characters str.strip() removes
Whitespace ==
    {" ", "\t", "\n", "\r", "\f"}

RECURSIVE lstrip(_)
lstrip(s) ==
    IF s = <<>> THEN s
    ELSE IF Head(s) \in Whitespace THEN lstrip(Tail(s))
    ELSE s

RECURSIVE rstrip(_)
rstrip(s) ==
    IF s = <<>> THEN s
    ELSE IF s[Len(s)] \in Whitespace THEN rstrip(SubSeq(s, 1, Len(s) - 1))
    ELSE s

\* v.strip() if isinstance(v, str) else v
strip_(v) ==
    IF v \in {ATTR_NOT_FOUND, None} THEN v ELSE rstrip(lstrip(v))

\* {strip_(k): strip_(v) for k,v in d.items()}; the attribute dicts of the
\* inputs have no two keys with the same stripped form
strip_attrs(attrs) ==
    [sk \in {strip_(k) : k \in DOMAIN attrs} |->
        strip_(attrs[CHOOSE k \in DOMAIN attrs : strip_(k) = sk])]

\* dict.update
update(dict, other) ==
    [k \in DOMAIN dict \cup DOMAIN other |->
        IF k \in DOMAIN other THEN other[k] ELSE dict[k]]

\* the three normalizations applied to one variable's attributes; the value
\* stored in var_attrs_restore[var] and the exception that escaped
normalize_var_attrs(attrs) ==
    LET stripped == strip_attrs(attrs)
        r1 == normalize_standard_name(EmptyDict, stripped)
        r2 == normalize_unit(r1.new_attr_d, stripped)
        r3 == normalize_calendar(stripped)
    IN  IF r1.exc # NoExc THEN [restore |-> EmptyDict, exc |-> r1.exc]
        ELSE IF r2.exc # NoExc THEN [restore |-> EmptyDict, exc |-> r2.exc]
        ELSE IF r3.exc # NoExc THEN [restore |-> EmptyDict, exc |-> r3.exc]
        ELSE [restore |-> update(r3.attr_d, r2.new_attr_d), exc |-> NoExc]

\* the loop over ds.variables with the commented-out assignment of line 511
\* carried out: the stripped and normalized dict replaces the live attributes
normalize_ds_attrs_set_live(ds, order) ==
    CHOOSE r \in {
        LET done == {v \in DOMAIN ds.vars : res[v].exc = NoExc}
        IN  [ds |-> [attrs |-> strip_attrs(ds.attrs),
                     vars |-> [v \in DOMAIN ds.vars |->
                         IF v \in done THEN res[v].restore ELSE ds.vars[v]]],
             attrs_backup |-> strip_attrs(ds.attrs),
             var_attrs_restore |-> [v \in done |-> res[v].restore],
             exc |-> IF done = DOMAIN ds.vars THEN NoExc
                     ELSE res[CHOOSE v \in DOMAIN ds.vars : v \notin done].exc] :
        res \in {[v \in DOMAIN ds.vars |-> normalize_var_attrs(ds.vars[v])]}} : TRUE

\* normalize_ds_attrs(ds), the variables visited in the order given: the
\* dataset (only its own attrs are replaced), the two backup stores, and the
\* exception that escaped; a variable that raises ends the loop
normalize_ds_attrs(ds, order) ==
    CHOOSE r \in {
        LET failed == {i \in 1..Len(order) : res[order[i]].exc # NoExc}
            stop == IF failed = {} THEN Len(order) + 1
                    ELSE CHOOSE i \in failed : \A j \in failed : i <= j
            visited == {order[i] : i \in 1..(stop - 1)}
        IN  [ds |-> [ds EXCEPT !.attrs = strip_attrs(ds.attrs)],
             attrs_backup |-> strip_attrs(ds.attrs),
             var_attrs_restore |-> [v \in visited |-> res[v].restore],
             exc |-> IF failed = {} THEN NoExc ELSE res[order[stop]].exc] :
        res \in {[v \in DOMAIN ds.vars |-> normalize_var_attrs(ds.vars[v])]}} : TRUE

\* _restore_one with the backed-up value written over the live one
_restore_one_overwrite(backup_d, attrs_d) ==
    [attrs_d |-> update(attrs_d, backup_d), discrepancies |-> {}]

\* _restore_one(name, backup_d, attrs_d): attrs_d afterwards and the keys
\* for which a discrepancy is written to the debug log
_restore_one(backup_d, attrs_d) ==
    LET after == [k \in DOMAIN attrs_d \cup DOMAIN backup_d |->
                    IF k \in DOMAIN attrs_d THEN attrs_d[k] ELSE backup_d[k]]
    IN  [attrs_d |-> after,
         discrepancies |-> {k \in DOMAIN backup_d :
                              backup_d[k] # after[k] /\ backup_d[k] # ATTR_NOT_FOUND}]

\* restore_attrs(ds), the variables visited in the order given;
\* self.var_attrs_restore[var] raises KeyError for a variable that
\* normalize_ds_attrs did not visit
restore_attrs(ds, backup, restore, order) ==
    LET missing == {i \in 1..Len(order) : order[i] \notin DOMAIN restore}
        stop == IF missing = {} THEN Len(order) + 1
                ELSE CHOOSE i \in missing : \A j \in missing : i <= j
        visited == {order[i] : i \in 1..(stop - 1)}
        top == _restore_one(backup, ds.attrs)
        messages == {<<None, k>> : k \in top.discrepancies} \cup
                    UNION {{<<v, k>> : k \in _restore_one(restore[v], ds.vars[v]).discrepancies} :
                           v \in visited}
    IN  [ds |-> [attrs |-> top.attrs_d,
                 vars |-> [v \in DOMAIN ds.vars |->
                     IF v \in visited THEN _restore_one(restore[v], ds.vars[v]).attrs_d
                     ELSE ds.vars[v]]],
         logged |-> [i \in 1..Cardinality(messages) |-> "debug"],
         exc |-> IF missing = {} THEN NoExc
                 ELSE [type |-> "KeyError", msg |-> "var"]]

\* attribute dicts of the dependent variable as read from a file
RawAttrDicts ==
    UNION {
        {f \in [K -> {u_K_sp, u_mb, n_precipitation_flux, c_lunar, c_noleap}] :
            /\ \A k \in K \cap {k_units, k_units_sp, k_Units} : f[k] \in {u_K_sp, u_mb}
            /\ k_standard_name \in K => f[k_standard_name] = n_precipitation_flux
            /\ k_calendar \in K => f[k_calendar] \in {c_lunar, c_noleap}} :
        K \in {S \in SUBSET {k_units, k_units_sp, k_Units, k_standard_name, k_calendar} :
                /\ Cardinality(S) <= MaxKeys
                /\ ~ ({k_units, k_units_sp} \subseteq S)}
    }

\* attribute dicts of the time coordinate as read from a file
RawTimeAttrDicts ==
    {EmptyDict, [k \in {k_calendar} |-> c_noleap_sp], [k \in {k_units} |-> u_K_sp]}

\* dataset-level attribute dicts as read from a file
RawDatasetAttrDicts ==
    {EmptyDict, [k \in {k_calendar} |-> c_noleap_sp], [k \in {k_Calendar} |-> c_noleap]}

\* ds.variables, in the order of the file
variables ==
    <<n_pr, n_time>>

\* datasets opened with decode_cf=False
RawDatasets ==
    {[attrs |-> a,
      vars |-> [v \in {n_pr, n_time} |-> IF v = n_pr THEN p ELSE t]] :
        a \in RawDatasetAttrDicts, p \in RawAttrDicts, t \in RawTimeAttrDicts}

\* what the external decode step can leave of one attribute dict: every key
\* is kept, dropped, or kept with another value
DecodedDicts(attrs) ==
    UNION {
        {[k \in K |-> IF k \in C THEN a_decoded ELSE attrs[k]] : C \in SUBSET K} :
        K \in SUBSET DOMAIN attrs
    }

InitAttrs ==
    /\ d = EmptyDict
    /\ new_attr_d = EmptyDict
    /\ our_var = EmptyDict
    /\ ds_var = EmptyDict
    /\ skip_units = FALSE
    /\ call = NoCall
    /\ ret = None
    /\ logged = <<>>
    /\ exc = NoExc
    /\ dataset \in RawDatasets
    /\ attrs_backup = EmptyDict
    /\ var_attrs_restore = EmptyDict
    /\ translated_var = EmptyDict
    /\ pc = "normalize_ds_attrs"
    /\ hist = [raw |-> dataset, decoded |-> dataset, decode_ran |-> FALSE]

\* self.normalize_ds_attrs(ds)
NormalizeDsAttrs ==
    \E r \in {normalize_ds_attrs(dataset, variables)} :
        /\ exc = NoExc
        /\ pc = "normalize_ds_attrs"
        /\ dataset' = r.ds
        /\ attrs_backup' = r.attrs_backup
        /\ var_attrs_restore' = update(var_attrs_restore, r.var_attrs_restore)
        /\ exc' = r.exc
        /\ pc' = "decode_cf"
        /\ hist' = [hist EXCEPT !.decoded = r.ds]
        /\ UNCHANGED <<d, new_attr_d, our_var, ds_var, skip_units, call, ret, logged,
                       translated_var>>

\* ds = xr.decode_cf(ds, ...); ds = ds.cf.guess_coord_axis()
DecodeCf ==
    \E a \in DecodedDicts(dataset.attrs),
       p \in DecodedDicts(dataset.vars[n_pr]),
       t \in DecodedDicts(dataset.vars[n_time]) :
        /\ exc = NoExc
        /\ pc = "decode_cf"
        /\ dataset' = [attrs |-> a, vars |-> [v \in {n_pr, n_time} |-> IF v = n_pr THEN p ELSE t]]
        /\ pc' = "restore_attrs"
        /\ hist' = [hist EXCEPT !.decoded = dataset', !.decode_ran = TRUE]
        /\ UNCHANGED <<d, new_attr_d, our_var, ds_var, skip_units, call, ret, logged, exc,
                       attrs_backup, var_attrs_restore, translated_var>>

\* self.restore_attrs(ds), after the decode step or directly after
\* normalize_ds_attrs
RestoreAttrs ==
    \E r \in {restore_attrs(dataset, attrs_backup, var_attrs_restore, variables)} :
        /\ exc = NoExc
        /\ pc \in {"decode_cf", "restore_attrs"}
        /\ dataset' = r.ds
        /\ logged' = r.logged
        /\ exc' = r.exc
        /\ pc' = "restored"
        /\ UNCHANGED <<d, new_attr_d, our_var, ds_var, skip_units, call, ret,
                       attrs_backup, var_attrs_restore, translated_var, hist>>

NextAttrs ==
    \/ NormalizeDsAttrs
    \/ DecodeCf
    \/ RestoreAttrs

SpecAttrs ==
    InitAttrs /\ [][NextAttrs]_vars


----------------------------------------------------------------------------
(* Claims about backup and restoration *)

\* restore_attrs has run directly after normalize_ds_attrs
RoundTripDone ==
    pc = "restored" /\ ~ hist.decode_ran /\ exc = NoExc

KeptAndCompleted(raw, now) ==
    /\ DOMAIN now = DOMAIN raw \cup DOMAIN strip_attrs(raw) \cup {k_standard_name, k_units}
    /\ \A k \in DOMAIN raw : now[k] = raw[k]
    /\ \A k \in DOMAIN strip_attrs(raw) \ DOMAIN raw :
            k \notin {k_units, k_calendar} => now[k] = strip_attrs(raw)[k]
    /\ \A k \in {k_standard_name, k_units} \ DOMAIN strip_attrs(raw) : now[k] = ATTR_NOT_FOUND

RestoreDone ==
    pc = "restored"

\* backup restored against the dict before the call and the dict now
RestoredFrom(backup, before, now) ==
    /\ \A k \in DOMAIN backup \ DOMAIN before : k \in DOMAIN now /\ now[k] = backup[k]
    /\ \A k \in DOMAIN before : k \in DOMAIN now /\ now[k] = before[k]

\* C12: restore_attrs, for the dataset and for every variable, re-inserts
\* every backed-up key that is absent after decode with its backed-up value,
\* keeps the post-decode value of every key that is present, and removes no key.
C12_RestoreOnlyReinserts ==
    RestoreDone =>
        /\ RestoredFrom(attrs_backup, hist.decoded.attrs, dataset.attrs)
        /\ \A v \in DOMAIN dataset.vars :
            RestoredFrom(var_attrs_restore[v], hist.decoded.vars[v], dataset.vars[v])

\* the decode step dropped a backed-up key of pr and replaced the value of
\* another, and restore_attrs put the first back and left the second
C12_Witness ==
    /\ RestoreDone
    /\ hist.decode_ran
    /\ \E k \in DOMAIN var_attrs_restore[n_pr] : k \notin DOMAIN hist.decoded.vars[n_pr]
    /\ \E k \in DOMAIN hist.decoded.vars[n_pr] :
        /\ k \in DOMAIN var_attrs_restore[n_pr]
        /\ var_attrs_restore[n_pr][k] # ATTR_NOT_FOUND
        /\ hist.decoded.vars[n_pr][k] = a_decoded
        /\ dataset.vars[n_pr][k] = a_decoded
        /\ logged # <<>>


----------------------------------------------------------------------------
(* Claims about missing units on the ground truth *)

\* reconcile_units was called on a dataset variable without units
CalledReconcileUnitsDsMissing ==
    /\ call.op = "reconcile_units"
    /\ Get(call.ds_var.attrs, k_units, ATTR_NOT_FOUND) = ATTR_NOT_FOUND

\* C16: reconcile_units on a ground-truth variable without units raises a
\* hard error and changes neither side in the default configuration; with
\* disable_unit_checks it raises nothing, logs a warning, and fills the
\* dataset's units attribute from the expected units.
C16_MissingUnitsHardOrLenient ==
    CalledReconcileUnitsDsMissing =>
        IF hist.disable_unit_checks
        THEN /\ exc = NoExc
             /\ "warning" \in Range(logged)
             /\ k_units \in DOMAIN ds_var.attrs
             /\ ds_var.attrs[k_units] = str(call.our_var[k_units])
        ELSE /\ exc.type = "TypeError"
             /\ our_var = call.our_var
             /\ ds_var = call.ds_var


----------------------------------------------------------------------------
(* Axis and coordinate classifier (the cf accessor of a Dataset and of a   *)
(* DataArray).  A dataset is a record: vars maps the name of every member  *)
(* variable to its dims, size and attrs; class gives the axis or           *)
(* coordinate criterion cf_xarray recognizes a coordinate name by;         *)
(* coords_of gives the coordinate names cf_xarray sees on a variable.      *)

\* "ua"
n_ua ==
    <<"u", "a">>

\* "lat"
n_lat ==
    <<"l", "a", "t">>

\* "lon"
n_lon ==
    <<"l", "o", "n">>

\* "plev19"
n_plev19 ==
    <<"p", "l", "e", "v", "1", "9">>

\* "height"
n_height ==
    <<"h", "e", "i", "g", "h", "t">>

\* cf_xarray.accessor._AXIS_NAMES
_AXIS_NAMES ==
    <<"X", "Y", "Z", "T">>

_ax_to_coord ==
    [key \in {"X", "Y", "Z", "T"} |->
        IF key = "X" THEN {"longitude"}
        ELSE IF key = "Y" THEN {"latitude"}
        ELSE IF key = "Z" THEN {"vertical"}
        ELSE {"time"}]

\* the coordinate names of the input datasets in the order sorted() gives
sorted_names ==
    <<n_height, n_lat, n_lon, n_plev19, n_time>>

\* sorted(v) for a collection v of coordinate names
sorted(v) ==
    SelectSeq(sorted_names, LAMBDA c : c \in v)

\* ds.dims: the dimensions of all member variables
ds_dims(ds) ==
    UNION {Range(ds.vars[v].dims) : v \in DOMAIN ds.vars}

\* c in ds
in_ds(c, ds) ==
    c \in DOMAIN ds.vars

\* the coordinate names cf_xarray searches: those of the whole Dataset
\* (obj = None) or those of the DataArray ds[obj]
search_in(ds, obj) ==
    IF obj = None THEN DOMAIN ds.class ELSE ds.coords_of[obj]

\* the function of cf_xarray that patch_cf_xarray_accessor wraps
old_get_axis_coord(ds, obj, key) ==
    {c \in search_in(ds, obj) : ds.class[c] = key}

\* new_get_axis_coord(var, key)
new_get_axis_coord(ds, obj, key) ==
    LET var_names == old_get_axis_coord(ds, obj, key)
    IN  IF var_names # {} \/ key \notin DOMAIN _ax_to_coord THEN var_names
        ELSE UNION {old_get_axis_coord(ds, obj, new_key) : new_key \in _ax_to_coord[key]}

\* vardict of _old_axes_dict
vardict(ds, obj) ==
    [key \in Range(_AXIS_NAMES) |-> new_get_axis_coord(ds, obj, key)]

\* {k: sorted(v) for k, v in vardict.items() if v}
nonempty(vd) ==
    [k \in {key \in DOMAIN vd : vd[key] # {}} |-> sorted(vd[k])]

\* the validation of _old_axes_dict with a dropped axis counted among the
\* axes that have no coordinate
_old_axes_dict_var_dropped_is_empty(ds, var_name) ==
    LET vd == vardict(ds, var_name)
        dims == Range(ds.vars[var_name].dims)
        too_many == {k \in DOMAIN vd : Cardinality(vd[k]) > 1}
        delete_keys == {k \in DOMAIN vd : Cardinality(vd[k]) = 1 /\ vd[k] \cap dims = {}}
        empty_keys == {k \in DOMAIN vd : vd[k] = {}} \cup delete_keys
        dims_list == dims \ UNION {vd[k] : k \in {key \in DOMAIN vd : Cardinality(vd[key]) = 1}}
    IN  IF too_many # {}
            THEN Raise([type |-> "TypeError", msg |-> "Too many axes"])
        ELSE IF dims_list = {}
            THEN Return(nonempty([k \in DOMAIN vd |-> IF k \in delete_keys THEN {} ELSE vd[k]]))
        ELSE IF Cardinality(dims_list) = 1 /\ Cardinality(empty_keys) = 1
            THEN Return(nonempty([k \in DOMAIN vd |->
                    IF k \in empty_keys THEN dims_list ELSE vd[k]]))
        ELSE Raise([type |-> "TypeError", msg |-> "Missing axes"])

\* _old_axes_dict(var_name) with var_name given (lines 143-171).  The loop
\* raises at the first axis with more than one coordinate; an axis with one
\* coordinate either takes that name out of dims_list or goes to
\* delete_keys; an axis with none goes to empty_keys.
_old_axes_dict_var(ds, var_name) ==
    LET vd == vardict(ds, var_name)
        dims == Range(ds.vars[var_name].dims)
        too_many == {k \in DOMAIN vd : Cardinality(vd[k]) > 1}
        delete_keys == {k \in DOMAIN vd : Cardinality(vd[k]) = 1 /\ vd[k] \cap dims = {}}
        empty_keys == {k \in DOMAIN vd : vd[k] = {}}
        dims_list == dims \ UNION {vd[k] : k \in {key \in DOMAIN vd : Cardinality(vd[key]) = 1}}
    IN  IF too_many # {}
            THEN Raise([type |-> "TypeError", msg |-> "Too many axes"])
        ELSE IF dims_list = {}
            THEN Return(nonempty([k \in DOMAIN vd |-> IF k \in delete_keys THEN {} ELSE vd[k]]))
        ELSE IF Cardinality(dims_list) = 1 /\ Cardinality(empty_keys) = 1
            THEN Return(nonempty([k \in DOMAIN vd |->
                    IF k \in empty_keys THEN dims_list
                    ELSE IF k \in delete_keys THEN {} ELSE vd[k]]))
        ELSE Raise([type |-> "TypeError", msg |-> "Missing axes"])

\* _old_axes_dict on the whole object obj (a Dataset: None; the DataArray of
\* a variable: its name), which does no validation
_old_axes_dict_all(ds, obj) ==
    Return(nonempty(vardict(ds, obj)))

\* the DataArray ds[c] found for axis ax, as the reconciler sees it
DataArray(c, ax) ==
    [kind |-> "DataArray", name |-> c, axis |-> ax]

\* PlaceholderScalarCoordinate(name=c, axis=ax)
PlaceholderScalarCoordinate(c, ax) ==
    [kind |-> "PlaceholderScalarCoordinate", name |-> c, axis |-> ax,
     standard_name |-> ATTR_NOT_FOUND, units |-> ATTR_NOT_FOUND]

\* _old_axes_dict(var_name) of the Dataset accessor
_old_axes_dict(ds, var_name) ==
    IF var_name = None THEN _old_axes_dict_all(ds, None)
    ELSE _old_axes_dict_var(ds, var_name)

\* the coordinates axes() keeps for one axis, in order
new_coords(ds, ax, coord_names, filter_set) ==
    LET kept == SelectSeq(coord_names,
                    LAMBDA c : c # <<>> /\ (filter_set = None \/ c \in Range(filter_set)))
    IN  [i \in 1..Len(kept) |->
            IF in_ds(kept[i], ds) THEN DataArray(kept[i], ax)
            ELSE PlaceholderScalarCoordinate(kept[i], ax)]

\* axes() for one variable that takes the first coordinate of every axis
\* and raises for no axis
axes_first_of_many(ds, var_name, filter_set) ==
    LET vd == nonempty(vardict(ds, var_name))
        found == {ax \in DOMAIN vd : new_coords(ds, ax, vd[ax], filter_set) # <<>>}
    IN  Return([ax \in found |->
            IF var_name # None THEN new_coords(ds, ax, vd[ax], filter_set)[1]
            ELSE new_coords(ds, ax, vd[ax], filter_set)])

\* MDTFCFDatasetAccessorMixin.axes(var_name, filter_set); filter_set is
\* None or the names in a sequence
axes(ds, var_name, filter_set) ==
    LET axes_d == _old_axes_dict(ds, var_name)
        vd == axes_d.ret
        kept(ax) == SelectSeq(vd[ax],
                        LAMBDA c : c # <<>> /\ (filter_set = None \/ c \in Range(filter_set)))
        asserted == {ax \in DOMAIN vd : \E i \in 1..Len(kept(ax)) :
                        /\ ~ in_ds(kept(ax)[i], ds)
                        /\ var_name # None
                        /\ kept(ax)[i] \in Range(ds.vars[var_name].dims)}
        found == {ax \in DOMAIN vd : new_coords(ds, ax, vd[ax], filter_set) # <<>>}
        many == {ax \in found : Len(new_coords(ds, ax, vd[ax], filter_set)) # 1}
    IN  IF axes_d.exc # NoExc THEN axes_d
        ELSE IF asserted # {}
            THEN Raise([type |-> "AssertionError", msg |-> "c not in ds[var_name].dims"])
        ELSE IF var_name # None /\ many # {}
            THEN Raise([type |-> "TypeError", msg |-> "More than one axis"])
        ELSE Return([ax \in found |->
                IF var_name # None THEN new_coords(ds, ax, vd[ax], filter_set)[1]
                ELSE new_coords(ds, ax, vd[ax], filter_set)])

\* MDTFCFDatasetAccessorMixin.dim_axes(var_name)
dim_axes(ds, var_name) ==
    axes(ds, var_name, sorted(ds_dims(ds)))

\* the scalar coordinates scalar_coords() takes from one axis, in order
scalars_of(ds, ax, coord_names) ==
    LET taken == SelectSeq(coord_names, LAMBDA c :
                    IF in_ds(c, ds)
                    THEN c \notin ds_dims(ds) \/ (ds.vars[c].size = 1 /\ ax = "Z")
                    ELSE c \notin ds_dims(ds))
    IN  [i \in 1..Len(taken) |->
            IF in_ds(taken[i], ds) THEN DataArray(taken[i], ax)
            ELSE PlaceholderScalarCoordinate(taken[i], ax)]

\* MDTFCFDatasetAccessorMixin.scalar_coords(var_name): the list scalars
scalar_coords(ds, var_name) ==
    LET axes_d == _old_axes_dict(ds, var_name)
        of(ax) == IF ax \in DOMAIN axes_d.ret THEN scalars_of(ds, ax, axes_d.ret[ax]) ELSE <<>>
    IN  IF axes_d.exc # NoExc THEN axes_d
        ELSE Return(of("X") \o of("Y") \o of("Z") \o of("T"))

\* MDTFDataArrayAccessorMixin.axes of ds[var_name]: {k: v[0]}
da_axes(ds, var_name) ==
    LET axes_d == _old_axes_dict_all(ds, var_name).ret
    IN  [k \in DOMAIN axes_d |-> axes_d[k][1]]

\* MDTFDataArrayAccessorMixin.dim_axes of ds[var_name]
da_dim_axes(ds, var_name) ==
    LET a == da_axes(ds, var_name)
    IN  [k \in {ax \in DOMAIN a : a[ax] \in Range(ds.vars[var_name].dims)} |-> a[k]]

\* MDTFDataArrayAccessorMixin.dim_axes_set of ds[var_name]
da_dim_axes_set(ds, var_name) ==
    DOMAIN da_dim_axes(ds, var_name)

\* a dataset with the dependent variable ua on the dims given; the
\* coordinate variables that are members, with their dims and sizes; and
\* the classification of the coordinate names cf_xarray sees on ua
MakeDataset(ua_dims, members, sizes, class) ==
    [attrs |-> EmptyDict,
     vars |-> [v \in {n_ua} \cup members |->
        IF v = n_ua THEN [dims |-> ua_dims, size |-> 2, attrs |-> EmptyDict]
        ELSE [dims |-> IF v \in Range(ua_dims) THEN <<v>> ELSE <<>>,
              size |-> IF v \in Range(ua_dims) THEN sizes[v] ELSE 1,
              attrs |-> EmptyDict]],
     class |-> class,
     coords_of |-> [v \in {n_ua} |-> DOMAIN class]]

\* how cf_xarray can classify a coordinate name
ClassesOf(c) ==
    IF c = n_time THEN {"T"}
    ELSE IF c = n_lat THEN {"Y"}
    ELSE IF c = n_lon THEN {"X", "longitude"}
    ELSE {"Z"}

\* the input datasets with ua on ua_dims and the member coordinate variables
\* given: a coordinate name that is no member is classified only when it is
\* no dimension (a reference by name only); plev19 has one level or several
AxesDatasetsWith(ua_dims, members) ==
    UNION {
        {MakeDataset(ua_dims, members,
                     [c \in members |-> IF c = n_plev19 THEN plev_size ELSE 2],
                     cl) :
            cl \in {f \in [classified -> {"X", "Y", "Z", "T", "longitude"}] :
                        \A c \in classified : f[c] \in ClassesOf(c)},
            plev_size \in {1, 2}} :
        classified \in {S \in SUBSET {n_time, n_lat, n_lon, n_plev19, n_height} :
                            S \cap Range(ua_dims) \subseteq members}
    }

\* datasets as they are after decode_cf and guess_coord_axis: ua on
\* (time, lat, lon) or (time, plev19, lat, lon); a dimension may lack its
\* coordinate variable; plev19 and height may be scalar coordinates that
\* are members or are referred to by name only; a coordinate name may go
\* unrecognized
AxesDatasets ==
    UNION {AxesDatasetsWith(ua_dims, {n_time, n_lat} \cup S) :
        ua_dims \in {<<n_time, n_lat, n_lon>>, <<n_time, n_plev19, n_lat, n_lon>>},
        S \in SUBSET {n_lon, n_plev19, n_height}}

InitAxes ==
    /\ d = EmptyDict
    /\ new_attr_d = EmptyDict
    /\ our_var = EmptyDict
    /\ ds_var = EmptyDict
    /\ skip_units = FALSE
    /\ call = NoCall
    /\ ret = None
    /\ logged = <<>>
    /\ exc = NoExc
    /\ dataset \in AxesDatasets
    /\ attrs_backup = EmptyDict
    /\ var_attrs_restore = EmptyDict
    /\ translated_var = EmptyDict
    /\ pc = "none"
    /\ hist = EmptyDict

\* the state after a query of the accessor that returned or raised r
Queried(op, args, r) ==
    /\ exc = NoExc
    /\ call' = Calling(op, args)
    /\ ret' = r.ret
    /\ exc' = r.exc
    /\ UNCHANGED <<d, new_attr_d, our_var, ds_var, skip_units, logged, parse_vars>>

\* ds.cf._old_axes_dict(var_name)
OldAxesDict ==
    \E var_name \in {None, n_ua} :
        Queried("_old_axes_dict", [var_name |-> var_name], _old_axes_dict(dataset, var_name))

\* ds.cf.axes(var_name, filter_set)
Axes ==
    \E var_name \in {None, n_ua}, filter_set \in {None, sorted(ds_dims(dataset))} :
        Queried("axes", [var_name |-> var_name, filter_set |-> filter_set],
                axes(dataset, var_name, filter_set))

\* ds.cf.scalar_coords(var_name)
ScalarCoords ==
    \E var_name \in {None, n_ua} :
        Queried("scalar_coords", [var_name |-> var_name], scalar_coords(dataset, var_name))

\* ds[var_name].cf.dim_axes
DataArrayDimAxes ==
    Queried("da_dim_axes", [var_name |-> n_ua], Return(da_dim_axes(dataset, n_ua)))

\* the property is_static of the accessor of the Dataset (obj = None) or of
\* the DataArray ds[obj]: bool() of the list of T coordinates found
is_static(ds, obj) ==
    new_get_axis_coord(ds, obj, "T") # {}

\* ds.cf.is_static and ds[var_name].cf.is_static
IsStatic ==
    \E obj \in {None, n_ua} :
        Queried("is_static", [obj |-> obj], Return(is_static(dataset, obj)))

NextAxes ==
    \/ OldAxesDict
    \/ Axes
    \/ ScalarCoords
    \/ DataArrayDimAxes
    \/ IsStatic

SpecAxes ==
    InitAxes /\ [][NextAxes]_vars


----------------------------------------------------------------------------
(* Claims about the classifier *)

\* the coordinate names of variable v that are classified as axis ax
Matched(v, ax) ==
    vardict(dataset, v)[ax]

\* the coordinate object the accessor makes for name c on axis ax
CoordObject(c, ax) ==
    IF in_ds(c, dataset) THEN DataArray(c, ax) ELSE PlaceholderScalarCoordinate(c, ax)

\* C17: axes for one dependent variable maps each returned axis label to
\* exactly one coordinate and raises when an axis label is matched by more
\* than one coordinate of that variable; axes for the whole dataset never
\* raises for that reason and returns every matched coordinate per label.
C17_OneCoordinatePerAxisOfVariable ==
    call.op = "axes" =>
        IF call.args.var_name # None
        THEN /\ (\E ax \in Range(_AXIS_NAMES) : Cardinality(Matched(n_ua, ax)) > 1)
                    => exc.type = "TypeError"
             /\ exc = NoExc => \A ax \in DOMAIN ret :
                    /\ Cardinality(Matched(n_ua, ax)) <= 1
                    /\ \E c \in Range(dataset.vars[n_ua].dims) \cup Matched(n_ua, ax) :
                            ret[ax] = CoordObject(c, ax)
        ELSE /\ exc = NoExc
             /\ \A ax \in Range(_AXIS_NAMES) :
                    LET wanted == {c \in Matched(None, ax) :
                            call.args.filter_set = None \/ c \in Range(call.args.filter_set)}
                    IN  IF wanted = {} THEN ax \notin DOMAIN ret
                        ELSE /\ ax \in DOMAIN ret
                             /\ ret[ax] = [i \in 1..Cardinality(wanted) |->
                                            CoordObject(sorted(wanted)[i], ax)]

\* axes('ua') raised because plev19 and height are both Z coordinates of ua
C17_Witness ==
    /\ call.op = "axes"
    /\ call.args.var_name = n_ua
    /\ Matched(n_ua, "Z") = {n_plev19, n_height}
    /\ exc.type = "TypeError"

\* the dimensions of v that no axis was assigned
UnassignedDims(v) ==
    Range(dataset.vars[v].dims) \ UNION {Matched(v, ax) : ax \in Range(_AXIS_NAMES)}

\* the axes that have no coordinate among the dimensions of v: those with
\* no match and those whose match was dropped
UnassignedAxes(v) ==
    {ax \in Range(_AXIS_NAMES) : Matched(v, ax) \cap Range(dataset.vars[v].dims) = {}}

\* the axes whose matched coordinate was dropped for being no dimension of v
DroppedAxes(v) ==
    {ax \in UnassignedAxes(v) : Matched(v, ax) # {}}

\* _old_axes_dict was called for ua, no axis has two coordinates, and a
\* dimension of ua is assigned to no axis
CalledRepair ==
    /\ call.op = "_old_axes_dict"
    /\ call.args.var_name = n_ua
    /\ \A ax \in Range(_AXIS_NAMES) : Cardinality(Matched(n_ua, ax)) <= 1
    /\ UnassignedDims(n_ua) # {}

\* C18 (as stated): axis-completeness repair for one variable: when a
\* dimension is assigned to no axis, exactly one unassigned axis and exactly
\* one unassigned dimension are paired, and every other case fails; an axis
\* whose only matched coordinate was dropped for not being a dimension counts
\* as unassigned.
C18_RepairCountsDroppedAxes ==
    CalledRepair =>
        IF Cardinality(UnassignedAxes(n_ua)) = 1 /\ Cardinality(UnassignedDims(n_ua)) = 1
        THEN /\ exc = NoExc
             /\ \A ax \in UnassignedAxes(n_ua) :
                    ax \in DOMAIN ret /\ ret[ax] = sorted(UnassignedDims(n_ua))
        ELSE exc.type = "TypeError"

\* C18 (amended): the unassigned axes of the repair are those with no
\* matched coordinate at all: exactly one such axis and exactly one
\* unassigned dimension are paired, and every other case fails; an axis whose
\* matched coordinate was dropped is left out of the result and is never
\* paired with a dimension.
C18_RepairIgnoresDroppedAxes ==
    CalledRepair =>
        LET empty_axes == UnassignedAxes(n_ua) \ DroppedAxes(n_ua)
        IN  IF Cardinality(empty_axes) = 1 /\ Cardinality(UnassignedDims(n_ua)) = 1
            THEN /\ exc = NoExc
                 /\ \A ax \in empty_axes :
                        ax \in DOMAIN ret /\ ret[ax] = sorted(UnassignedDims(n_ua))
                 /\ \A ax \in DroppedAxes(n_ua) : ax \notin DOMAIN ret
            ELSE exc.type = "TypeError"

\* plev19 of ua(time, plev19, lat, lon) went unrecognized and the scalar
\* coordinate height, matched to Z, was dropped: the classification failed
C18_Witness ==
    /\ CalledRepair
    /\ UnassignedDims(n_ua) = {n_plev19}
    /\ DroppedAxes(n_ua) = {"Z"}
    /\ UnassignedAxes(n_ua) = {"Z"}
    /\ exc.type = "TypeError"

\* the coordinates of v that are classified but are no dimension of v, or
\* are a vertical coordinate of size 1, each as the object for its axis
ScalarsOf(v) ==
    UNION {{CoordObject(c, ax) : c \in {m \in Matched(v, ax) :
                \/ m \notin Range(dataset.vars[v].dims)
                \/ (in_ds(m, dataset) /\ dataset.vars[m].size = 1 /\ ax = "Z")}} :
           ax \in Range(_AXIS_NAMES)}

\* C19: scalar_coords(variable) returns exactly the axis-classified
\* coordinates of the variable that are no dimension of it or are a size-1
\* vertical coordinate, as a real coordinate for a dataset member and as a
\* placeholder for a name reference.
C19_ScalarCoordsOfVariable ==
    ( /\ call.op = "scalar_coords"
      /\ call.args.var_name = n_ua
      /\ exc = NoExc )
        => Range(ret) = ScalarsOf(n_ua)


----------------------------------------------------------------------------
(* Reconciliation of an expected variable record with the dataset.  The    *)
(* expected record (a TranslatedVarlistEntry, defined outside this         *)
(* repository's sources) is [d, dims, scalars]: d holds its name,          *)
(* standard_name and units; dims is its dim_axes, one coordinate record    *)
(* per axis, in the order of the mapping; scalars is its scalar_coords.    *)
(* A coordinate record is [d, axis, is_scalar, value, bounds_var].         *)

\* "bounds"
k_bounds ==
    <<"b", "o", "u", "n", "d", "s">>

\* "lat_bnds"
n_lat_bnds ==
    <<"l", "a", "t", "_", "b", "n", "d", "s">>

\* "latitude"
n_latitude ==
    <<"l", "a", "t", "i", "t", "u", "d", "e">>

\* reconcile_name(our_var, ds_var_name, update_name)
reconcile_name(our, ds_var_name, update_name) ==
    compare_attr(our, k_name, IF update_name THEN <<>> ELSE Get(our, k_name, <<>>),
                 None, k_name, ds_var_name, "None", TRUE, FALSE, "None")

\* reconcile_names(our_var, ds, ds_var_name, update_name): our side as the
\* call leaves it and the exception raised
reconcile_names(our, ds, ds_var_name, update_name) ==
    IF ~ in_ds(ds_var_name, ds)
    THEN [our_var |-> our, exc |-> [type |-> "ValueError", msg |-> "not found in dataset"]]
    ELSE CHOOSE r \in {
            IF r1.exc # NoExc THEN [our_var |-> r1.our_var, exc |-> r1.exc]
            ELSE LET r2 == reconcile_attr(r1.our_var, ds.vars[ds_var_name],
                                          k_standard_name, "None", TRUE, TRUE)
                 IN  [our_var |-> r2.our_var, exc |-> r2.exc] :
            r1 \in {reconcile_name(our, ds_var_name, update_name)}} : TRUE

\* ds.cf.get_bounds(ds_coord_name): the bounds variable the coordinate's
\* bounds attribute names, KeyError when there is none
get_bounds(ds, ds_coord_name) ==
    LET a == ds.vars[ds_coord_name].attrs
    IN  IF k_bounds \in DOMAIN a /\ in_ds(a[k_bounds], ds) THEN Return(a[k_bounds])
        ELSE Raise([type |-> "KeyError", msg |-> "bounds"])

\* reconcile_coord_bounds(our_coord, ds, ds_coord_name)
reconcile_coord_bounds(our_coord, ds, ds_coord_name) ==
    LET b == get_bounds(ds, ds_coord_name)
        r1 == reconcile_attr(our_coord.d, ds.vars[b.ret], k_standard_name, "None", FALSE, TRUE)
        r2 == reconcile_attr(our_coord.d, ds.vars[b.ret], k_units, "units_equal", FALSE, TRUE)
    IN  IF b.exc # NoExc
            THEN [coord |-> [our_coord EXCEPT !.bounds_var = None], exc |-> NoExc]
        ELSE IF r1.exc # NoExc THEN [coord |-> our_coord, exc |-> r1.exc]
        ELSE IF r2.exc # NoExc THEN [coord |-> our_coord, exc |-> r2.exc]
        ELSE [coord |-> [our_coord EXCEPT !.bounds_var = b.ret], exc |-> NoExc]

\* the body of the loop of lines 796-800 for one expected coordinate
reconcile_coord(coord, ds, ds_coord_name, skip) ==
    CHOOSE r \in {
        IF r1.exc # NoExc THEN [coord |-> [coord EXCEPT !.d = r1.our_var], exc |-> r1.exc]
        ELSE CHOOSE q \in {
                IF r2.exc # NoExc
                THEN [coord |-> [coord EXCEPT !.d = r2.our_var], exc |-> r2.exc]
                ELSE reconcile_coord_bounds([coord EXCEPT !.d = r2.our_var], ds, ds_coord_name) :
                r2 \in {reconcile_units(r1.our_var, ds.vars[ds_coord_name], skip)}} : TRUE :
        r1 \in {reconcile_names(coord.d, ds, ds_coord_name, TRUE)}} : TRUE

\* the loop of lines 796-800 from the i-th expected coordinate on: it ends
\* at the first coordinate that raises
RECURSIVE reconcile_coords(_, _, _, _, _)
reconcile_coords(coords, ds, ds_axes, skip, i) ==
    IF i > Len(coords) THEN [coords |-> coords, exc |-> NoExc]
    ELSE CHOOSE q \in {
            IF r.exc # NoExc THEN [coords |-> [coords EXCEPT ![i] = r.coord], exc |-> r.exc]
            ELSE reconcile_coords([coords EXCEPT ![i] = r.coord], ds, ds_axes, skip, i + 1) :
            r \in {reconcile_coord(coords[i], ds, ds_axes[coords[i].axis], skip)}} : TRUE

\* our_var.dim_axes_set
dim_axes_set(tv) ==
    {tv.dims[i].axis : i \in DOMAIN tv.dims}

\* reconcile_dimension_coords(our_var, ds): the expected record as the call
\* leaves it, the exception raised and the levels of the messages logged
reconcile_dimension_coords(tv, ds, skip) ==
    LET name == tv.d[k_name]
        a == axes(ds, name, None)
        ds_axes == da_dim_axes(ds, name)
        size1 == SelectSeq(ds.vars[name].dims, LAMBDA c : ds.vars[c].size = 1)
    IN  IF a.exc # NoExc THEN [tv |-> tv, exc |-> a.exc, logged |-> <<>>]
        ELSE IF dim_axes_set(tv) # DOMAIN ds_axes
            THEN [tv |-> tv, logged |-> <<>>,
                  exc |-> [type |-> "TypeError", msg |-> "unexpected dimensionality"]]
        ELSE CHOOSE q \in {
                IF r.exc # NoExc
                THEN [tv |-> [tv EXCEPT !.dims = r.coords], exc |-> r.exc, logged |-> <<>>]
                ELSE IF size1 # <<>> /\ "Z" \notin DOMAIN ds_axes
                THEN [tv |-> [tv EXCEPT !.dims = r.coords], logged |-> <<>>,
                      exc |-> [type |-> "KeyError", msg |-> "Z"]]
                ELSE [tv |-> [tv EXCEPT !.dims = r.coords], exc |-> NoExc,
                      logged |-> [i \in 1..Len(SelectSeq(size1, LAMBDA c : c = ds_axes["Z"]))
                                    |-> "warning"]] :
                r \in {reconcile_coords(tv.dims, ds, ds_axes, skip, 1)}} : TRUE


\* a result with the messages l logged before it
with_logged(l, r) ==
    [r EXCEPT !.logged = l \o r.logged]

\* hasattr(our_var, 'is_scalar') and our_var.is_scalar
is_scalar(our) ==
    "is_scalar" \in DOMAIN our /\ our.is_scalar

\* '_scalar_coordinate_value', the placeholder attribute
attr_name_placeholder ==
    <<"_", "s", "c", "a", "l", "a", "r", "_", "c", "o", "o", "r", "d", "i", "n", "a", "t", "e", "_", "v", "a", "l", "u", "e">>

\* _cleanup_our_var(var_): the (value, units) pair compare_attr stored in the
\* placeholder attribute moves to value and units, and the placeholder goes
_cleanup_our_var(var_) ==
    IF attr_name_placeholder \in DOMAIN var_.d
    THEN [var_ EXCEPT !.value = var_.d[attr_name_placeholder][1],
                      !.d = Del(Put(var_.d, k_units,
                                    to_cfunits(var_.d[attr_name_placeholder][2])),
                                attr_name_placeholder)]
    ELSE var_

\* _compare_value_and_units(our_var, ds_var, comparison_func).  The units
\* module raises TypeError for a dataset value without units (the case the
\* comment of line 729 names); both outcomes of compare_attr are followed by
\* _cleanup_our_var
_compare_value_and_units(our, ds, comparison_func) ==
    IF Get(ds.attrs, k_units, ATTR_NOT_FOUND) = ATTR_NOT_FOUND
    THEN [our |-> _cleanup_our_var(our), ds |-> ds,
          exc |-> [type |-> "TypeError", msg |-> "units"]]
    ELSE CHOOSE q \in {
            [our |-> _cleanup_our_var([our EXCEPT !.d = c.our_var]),
             ds |-> c.ds_var, exc |-> c.exc] :
            c \in {compare_attr(our.d, attr_name_placeholder, <<our.value, our.d[k_units]>>,
                                ds, attr_name_placeholder, <<ds.value, ds.attrs[k_units]>>,
                                comparison_func, TRUE, FALSE, "None")}} : TRUE

\* _compare_value_only(our_var, ds_var): nothing follows its two
\* compare_attr calls
_compare_value_only(our, ds) ==
    CHOOSE q \in {
        IF c1.exc # NoExc
        THEN [our |-> [our EXCEPT !.d = c1.our_var], ds |-> c1.ds_var, exc |-> c1.exc]
        ELSE CHOOSE p \in {
                [our |-> [our EXCEPT !.d = c2.our_var], ds |-> c2.ds_var, exc |-> c2.exc] :
                c2 \in {compare_attr(c1.our_var, attr_name_placeholder, our.d[k_units],
                                     c1.ds_var, attr_name_placeholder,
                                     Get(ds.attrs, k_units, ATTR_NOT_FOUND),
                                     "None", FALSE, TRUE, "None")}} : TRUE :
        c1 \in {compare_attr(our.d, attr_name_placeholder, our.value,
                             ds, attr_name_placeholder, ds.value,
                             "None", TRUE, FALSE, "None")}} : TRUE

\* lines 735-744: the equality pass, whose ValueError becomes a warning
equality_pass(our, ds) ==
    CHOOSE q \in {
        IF r.exc.type = "ValueError"
        THEN [our |-> [r.our EXCEPT !.d = Put(r.our.d, k_units, to_cfunits(r.our.d[k_units]))],
              ds |-> r.ds, exc |-> NoExc, logged |-> <<"warning">>]
        ELSE [our |-> r.our, ds |-> r.ds, exc |-> r.exc, logged |-> <<>>] :
        r \in {_compare_value_and_units(our, ds, "quantity_equal")}} : TRUE

\* reconcile_scalar_value_and_units(our_var, ds_var): the record passed as
\* our_var and the dataset coordinate as the call leaves them, the
\* exception and the messages logged
reconcile_scalar_value_and_units(our, ds, skip) ==
    IF ~ is_scalar(our)
        THEN [our |-> our, ds |-> ds, logged |-> <<>>,
              exc |-> [type |-> "AssertionError", msg |-> "is_scalar"]]
    ELSE IF ds.size # 1
        THEN [our |-> our, ds |-> ds, logged |-> <<>>,
              exc |-> [type |-> "AssertionError", msg |-> "size"]]
    ELSE CHOOSE q \in {
            IF r.exc.type = "TypeError"
            THEN IF skip
                 THEN [our |-> _compare_value_only(r.our, r.ds).our,
                       ds |-> _compare_value_only(r.our, r.ds).ds,
                       exc |-> _compare_value_only(r.our, r.ds).exc, logged |-> <<>>]
                 ELSE [our |-> r.our, ds |-> r.ds, exc |-> r.exc, logged |-> <<>>]
            ELSE IF r.exc # NoExc
                THEN [our |-> r.our, ds |-> r.ds, exc |-> r.exc, logged |-> <<>>]
            ELSE equality_pass(r.our, r.ds) :
            r \in {_compare_value_and_units(our, ds, "quantity_equivalent")}} : TRUE

\* the loop of lines 843-862 from the i-th expected scalar coordinate on;
\* line 854 passes our_var, the record of the parent variable
RECURSIVE reconcile_scalars(_, _, _, _)
reconcile_scalars(tv, ds, skip, i) ==
    IF i > Len(tv.scalars) THEN [tv |-> tv, exc |-> NoExc, logged |-> <<>>]
    ELSE IF tv.scalars[i].axis \notin DOMAIN da_axes(ds, tv.d[k_name])
        THEN reconcile_scalars(tv, ds, skip, i + 1)
    ELSE LET ds_coord_name == da_axes(ds, tv.d[k_name])[tv.scalars[i].axis]
         IN  IF in_ds(ds_coord_name, ds)
             THEN CHOOSE q \in {
                    LET named == [tv EXCEPT !.scalars[i].d = r1.our_var]
                        l == IF ds.vars[ds_coord_name].size # 1 THEN <<"error">> ELSE <<>>
                    IN  IF r1.exc # NoExc THEN [tv |-> named, exc |-> r1.exc, logged |-> l]
                        ELSE CHOOSE p \in {
                            IF r2.exc # NoExc
                            THEN [tv |-> r2.our, exc |-> r2.exc, logged |-> l \o r2.logged]
                            ELSE with_logged(l \o r2.logged,
                                             reconcile_scalars(r2.our, ds, skip, i + 1)) :
                            r2 \in {reconcile_scalar_value_and_units(
                                        named, ds.vars[ds_coord_name], skip)}} : TRUE :
                    r1 \in {reconcile_names(tv.scalars[i].d, ds, ds_coord_name, TRUE)}} : TRUE
             ELSE CHOOSE q \in {
                    LET named == [tv EXCEPT !.scalars[i].d = r.our_var]
                    IN  IF r.exc # NoExc
                        THEN [tv |-> named, exc |-> r.exc, logged |-> <<"warning">>]
                        ELSE with_logged(<<"warning">>, reconcile_scalars(named, ds, skip, i + 1)) :
                    r \in {reconcile_name(tv.scalars[i].d, ds_coord_name, TRUE)}} : TRUE

\* reconcile_scalar_coords(our_var, ds)
reconcile_scalar_coords(tv, ds, skip) ==
    LET our_axes == [i \in DOMAIN tv.scalars |-> tv.scalars[i].axis]
        s == scalar_coords(ds, tv.d[k_name])
        ds_axes == [i \in DOMAIN s.ret |-> s.ret[i].axis]
        l1 == IF our_axes # <<>> /\ Range(our_axes) # {"Z"} THEN <<"error">> ELSE <<>>
        l2 == IF Len(our_axes) # 0 /\ Len(ds_axes) = 0 THEN <<"debug">>
              ELSE IF our_axes # ds_axes THEN <<"warning">> ELSE <<>>
    IN  IF s.exc # NoExc THEN [tv |-> tv, exc |-> s.exc, logged |-> <<>>]
        ELSE with_logged(l1 \o l2, reconcile_scalars(tv, ds, skip, 1))


----------------------------------------------------------------------------
(* Final checks and the sequence of parse *)

\* lines 914-915: the calendar found goes through guess_attr and is stored
\* on the time coordinate t
set_calendar(ds, t, cal, l) ==
    CHOOSE q \in {
        IF g.exc # NoExc THEN [ds |-> ds, exc |-> g.exc, logged |-> l]
        ELSE [ds |-> [ds EXCEPT !.vars[t].attrs = Put(@, k_calendar, g.ret)],
              exc |-> NoExc, logged |-> l] :
        g \in {guess_attr(cal, _cf_calendars, fallback_cal, "None")}} : TRUE

\* cftime_cal is None or empty
unset(cftime_cal) ==
    cftime_cal = None \/ ~ Truthy(cftime_cal)

\* lines 903-915 when the decoded time values carry no calendar: the
\* encoding of the time coordinate t, its attrs and the attrs of the dataset
\* are normalized and searched in turn
find_calendar(ds, t, l) ==
    CHOOSE q \in {
        IF n1.exc # NoExc
            THEN [ds |-> [ds EXCEPT !.encoding = n1.attr_d], exc |-> n1.exc, logged |-> l]
        ELSE IF ~ unset(Get(n1.attr_d, k_calendar, None))
            THEN set_calendar([ds EXCEPT !.encoding = n1.attr_d], t, n1.attr_d[k_calendar], l)
        ELSE IF n2.exc # NoExc
            THEN [ds |-> [ds EXCEPT !.encoding = n1.attr_d, !.vars[t].attrs = n2.attr_d],
                  exc |-> n2.exc, logged |-> l]
        ELSE IF ~ unset(Get(n2.attr_d, k_calendar, None))
            THEN set_calendar([ds EXCEPT !.encoding = n1.attr_d, !.vars[t].attrs = n2.attr_d],
                              t, n2.attr_d[k_calendar], l)
        ELSE IF n3.exc # NoExc
            THEN [ds |-> [ds EXCEPT !.encoding = n1.attr_d, !.vars[t].attrs = n2.attr_d,
                                    !.attrs = n3.attr_d],
                  exc |-> n3.exc, logged |-> l]
        ELSE IF ~ unset(Get(n3.attr_d, k_calendar, None))
            THEN set_calendar([ds EXCEPT !.encoding = n1.attr_d, !.vars[t].attrs = n2.attr_d,
                                         !.attrs = n3.attr_d],
                              t, n3.attr_d[k_calendar], l)
        ELSE set_calendar([ds EXCEPT !.encoding = n1.attr_d, !.vars[t].attrs = n2.attr_d,
                                     !.attrs = n3.attr_d],
                          t, fallback_cal, l \o <<"error">>) :
        n1 \in {normalize_calendar(ds.encoding)},
        n2 \in {normalize_calendar(ds.vars[t].attrs)},
        n3 \in {normalize_calendar(ds.attrs)}} : TRUE

\* check_calendar(ds).  ds.cftime_cal is the calendar of the decoded time
\* values (None when the decode step produced none) and ds.encoding the
\* encoding dict of the time coordinate.  Result: the dataset as the call
\* leaves it, the exception raised and the levels of the messages logged.
check_calendar(ds) ==
    CHOOSE q \in {
        LET many == IF Len(t_coords) > 1 THEN <<"error">> ELSE <<>>
        IN  IF t_coords = <<>> THEN [ds |-> ds, exc |-> NoExc, logged |-> <<>>]
            ELSE IF t_coords[1].kind # "DataArray"
                THEN [ds |-> ds, logged |-> many,
                      exc |-> [type |-> "AttributeError", msg |-> "values"]]
            ELSE IF ~ unset(ds.cftime_cal)
                THEN set_calendar(ds, t_coords[1].name, ds.cftime_cal, many)
            ELSE find_calendar(ds, t_coords[1].name, many \o <<"warning">>) :
        t_coords \in {Get(axes(ds, None, None).ret, "T", <<>>)}} : TRUE

\* DatasetParser.__init__: self.skip_std_name, read from the empty config
init_skip_std_name ==
    LET config == EmptyDict
    IN  Get(config, "disable_CF_name_checks", FALSE)

\* check_standard_name: the exception it raises, if any
check_standard_name(ds, skip) ==
    IF Get(ds.attrs, k_standard_name, ATTR_NOT_FOUND) = ATTR_NOT_FOUND /\ ~ skip
    THEN [type |-> "TypeError", msg |-> "standard_name not found on variable"]
    ELSE NoExc

\* ds[v_name] of line 959: a dimension that has no coordinate variable
\* gives an array without attributes
ds_getitem(ds, v_name) ==
    IF in_ds(v_name, ds) THEN ds.vars[v_name]
    ELSE [dims |-> <<v_name>>, attrs |-> EmptyDict]

\* the loop of check_ds_attrs over names_to_check from the i-th name on:
\* the first exception raised
RECURSIVE check_names(_, _, _, _)
check_names(ds, names_to_check, skip, i) ==
    IF i > Len(names_to_check) THEN NoExc
    ELSE IF check_standard_name(ds_getitem(ds, names_to_check[i]), init_skip_std_name) # NoExc
        THEN check_standard_name(ds_getitem(ds, names_to_check[i]), init_skip_std_name)
    ELSE IF check_unit(ds_getitem(ds, names_to_check[i]), skip) # NoExc
        THEN check_unit(ds_getitem(ds, names_to_check[i]), skip)
    ELSE check_names(ds, names_to_check, skip, i + 1)

\* ds.variables, in the order of the file
ds_variables(ds) ==
    SelectSeq(<<n_ua, n_time, n_plev19, n_lat, n_lon, n_height, n_lat_bnds>>,
              LAMBDA v : in_ds(v, ds))

\* the calls reconcile_variable makes, in the order of lines 871-876
reconcile_variable_steps_coords_first ==
    <<"reconcile_names", "reconcile_dimension_coords", "reconcile_scalar_coords",
      "reconcile_units">>

reconcile_variable_steps ==
    <<"reconcile_names", "reconcile_units", "reconcile_dimension_coords",
      "reconcile_scalar_coords">>

\* parse with check_ds_attrs called before reconcile_variable
parse_steps_checks_first(var_supplied) ==
    <<"normalize_ds_attrs", "decode_cf", "guess_coord_axis", "restore_attrs",
      "check_calendar", "check_names">>
    \o (IF var_supplied THEN reconcile_variable_steps ELSE <<>>)

\* the calls parse makes, in the order of lines 987-999; check_ds_attrs is
\* check_calendar followed by the loop over names_to_check
parse_steps(var_supplied) ==
    <<"normalize_ds_attrs", "decode_cf", "guess_coord_axis", "restore_attrs">>
    \o (IF var_supplied THEN reconcile_variable_steps ELSE <<>>)
    \o <<"check_calendar", "check_names">>

\* the statement that follows the call s
step_after(steps, s) ==
    LET i == CHOOSE j \in 1..Len(steps) : steps[j] = s
    IN  IF i = Len(steps) THEN "return" ELSE steps[i + 1]

\* the attribute dicts of a dataset, as normalize_ds_attrs and restore_attrs
\* see them
attrs_of(ds) ==
    [attrs |-> ds.attrs, vars |-> [v \in DOMAIN ds.vars |-> ds.vars[v].attrs]]

\* the dataset with the attribute dicts replaced
set_attrs(ds, a) ==
    [ds EXCEPT !.attrs = a.attrs,
               !.vars = [v \in DOMAIN ds.vars |-> [ds.vars[v] EXCEPT !.attrs = a.vars[v]]]]


----------------------------------------------------------------------------
(* Inputs of parse *)

\* the value of the scalar coordinate plev19
v_500 ==
    <<"5", "0", "0">>

\* an attribute dict or expected record with name (or no name: <<>>),
\* standard_name and units
Attrs3(n, s, u) ==
    [k \in (IF n = <<>> THEN {} ELSE {k_name}) \cup {k_standard_name, k_units} |->
        IF k = k_name THEN n ELSE IF k = k_standard_name THEN s ELSE u]

\* the classification of the coordinate names given
class_of(names) ==
    [c \in names |-> IF c = n_time THEN "T" ELSE IF c = n_lat THEN "Y"
                     ELSE IF c = n_lon THEN "X" ELSE "Z"]

Structure(ua_dims, members, plev_size, classified) ==
    MakeDataset(ua_dims, members,
                [c \in members |-> IF c = n_plev19 THEN plev_size ELSE 2],
                class_of(classified))

\* ua on (time, lat, lon) or (time, plev19, lat, lon) with several levels or
\* one; plev19 a scalar coordinate that is a member or a name only; lon
\* without coordinate variable, the only dimension left unrecognized or
\* not; two scalar coordinates on the Z axis; a single column (lon of size
\* 1) without vertical axis
ParseStructures ==
    {Structure(<<n_time, n_lat, n_lon>>, {n_time, n_lat, n_lon}, 2, {n_time, n_lat, n_lon}),
     Structure(<<n_time, n_plev19, n_lat, n_lon>>, {n_time, n_plev19, n_lat, n_lon}, 2,
               {n_time, n_plev19, n_lat, n_lon}),
     Structure(<<n_time, n_plev19, n_lat, n_lon>>, {n_time, n_plev19, n_lat, n_lon}, 1,
               {n_time, n_plev19, n_lat, n_lon}),
     Structure(<<n_time, n_lat, n_lon>>, {n_time, n_lat, n_lon, n_plev19}, 2,
               {n_time, n_lat, n_lon, n_plev19}),
     Structure(<<n_time, n_lat, n_lon>>, {n_time, n_lat, n_lon}, 2,
               {n_time, n_lat, n_lon, n_plev19}),
     Structure(<<n_time, n_lat, n_lon>>, {n_time, n_lat}, 2, {n_time, n_lat}),
     Structure(<<n_time, n_plev19, n_lat, n_lon>>, {n_time, n_plev19, n_lat}, 2,
               {n_time, n_plev19, n_lat}),
     Structure(<<n_time, n_lat, n_lon>>, {n_time, n_lat, n_lon, n_plev19, n_height}, 2,
               {n_time, n_lat, n_lon, n_plev19, n_height}),
     MakeDataset(<<n_time, n_lat, n_lon>>, {n_time, n_lat, n_lon},
                 [c \in {n_time, n_lat, n_lon} |-> IF c = n_lon THEN 1 ELSE 2],
                 class_of({n_time, n_lat, n_lon}))}

\* attributes of ua in the file: as expected; units equivalent but not
\* equal; no units; another standard_name
UaAttrs ==
    {Attrs3(<<>>, n_precipitation_flux, u_kg_m2_s1),
     Attrs3(<<>>, n_precipitation_flux, u_mm_day),
     [k \in {k_standard_name} |-> n_precipitation_flux],
     Attrs3(<<>>, n_rainfall_flux, u_kg_m2_s1)}

\* attributes of lat in the file, and of its bounds variable when it names
\* one: as expected; no units; another standard_name; bounds with and
\* without attributes
LatAttrs ==
    {[attrs |-> Attrs3(<<>>, n_lat, u_K), bnds |-> EmptyDict],
     [attrs |-> [k \in {k_standard_name} |-> n_lat], bnds |-> EmptyDict],
     [attrs |-> Attrs3(<<>>, n_rainfall_flux, u_K), bnds |-> EmptyDict],
     [attrs |-> Put(Attrs3(<<>>, n_lat, u_K), k_bounds, n_lat_bnds),
      bnds |-> Attrs3(<<>>, n_lat, u_K)],
     [attrs |-> Put(Attrs3(<<>>, n_lat, u_K), k_bounds, n_lat_bnds), bnds |-> EmptyDict]}

\* the dataset of the structure base as opened with decode_cf=False
ParseDataset(base, ua_attrs, lat) ==
    [attrs |-> EmptyDict,
     vars |-> [v \in DOMAIN base.vars \cup
                     (IF k_bounds \in DOMAIN lat.attrs THEN {n_lat_bnds} ELSE {}) |->
        IF v = n_lat_bnds
        THEN [dims |-> <<n_lat>>, size |-> 2, attrs |-> lat.bnds, value |-> None]
        ELSE [dims |-> base.vars[v].dims,
              size |-> base.vars[v].size,
              attrs |-> IF v = n_ua THEN ua_attrs
                        ELSE IF v = n_lat THEN lat.attrs
                        ELSE IF v = n_time THEN Put(Attrs3(<<>>, v, u_K), k_calendar, c_noleap)
                        ELSE Attrs3(<<>>, v, u_K),
              value |-> IF base.vars[v].size = 1 THEN v_500 ELSE None]],
     class |-> base.class,
     coords_of |-> base.coords_of,
     cftime_cal |-> None,
     encoding |-> EmptyDict]

ParseDatasets ==
    {ParseDataset(s, ua, CHOOSE l \in LatAttrs : l.attrs = Attrs3(<<>>, n_lat, u_K)) :
        s \in ParseStructures, ua \in UaAttrs}
    \cup {ParseDataset(s, Attrs3(<<>>, n_precipitation_flux, u_kg_m2_s1), l) :
        s \in ParseStructures, l \in LatAttrs}

\* an expected coordinate record
ExpectedCoord(name, axis, scalar) ==
    [d |-> Attrs3(name, IF name = n_latitude THEN n_lat ELSE name, u_K),
     axis |-> axis, is_scalar |-> scalar,
     value |-> IF scalar THEN v_500 ELSE None, bounds_var |-> None]

\* the expected variable records: ua on T, Y, X or on T, Z, Y, X; with a
\* scalar coordinate on Z; with units that are not equivalent; with a
\* coordinate the convention names differently
TranslatedVars ==
    LET T == ExpectedCoord(n_time, "T", FALSE)
        Y == ExpectedCoord(n_lat, "Y", FALSE)
        X == ExpectedCoord(n_lon, "X", FALSE)
        Z == ExpectedCoord(n_plev19, "Z", FALSE)
        good == Attrs3(n_ua, n_precipitation_flux, u_kg_m2_s1)
    IN  {[d |-> good, dims |-> <<T, Y, X>>, scalars |-> <<>>],
         [d |-> good, dims |-> <<T, Z, Y, X>>, scalars |-> <<>>],
         [d |-> good, dims |-> <<T, Y, X>>,
          scalars |-> <<ExpectedCoord(n_plev19, "Z", TRUE)>>],
         [d |-> Attrs3(n_ua, n_precipitation_flux, u_K), dims |-> <<T, Y, X>>,
          scalars |-> <<>>],
         [d |-> good, dims |-> <<T, ExpectedCoord(n_latitude, "Y", FALSE), X>>,
          scalars |-> <<>>],
         [d |-> good, dims |-> <<T, Y, X>>,
          scalars |-> <<ExpectedCoord(n_height, "Z", TRUE)>>]}


----------------------------------------------------------------------------
(* parse(ds, var), one action per call it makes.  hist.steps lists the     *)
(* calls started so far; hist.tv0 is the expected record parse was given;  *)
(* hist.tv_before and hist.ds_before are the expected record and the       *)
(* dataset when the last call started.                                     *)

InitParse ==
    /\ d = EmptyDict
    /\ new_attr_d = EmptyDict
    /\ our_var = EmptyDict
    /\ ds_var = EmptyDict
    /\ skip_units = init_skip_units(FALSE)
    /\ call = NoCall
    /\ ret = None
    /\ logged = <<>>
    /\ exc = NoExc
    /\ dataset \in ParseDatasets
    /\ attrs_backup = EmptyDict
    /\ var_attrs_restore = EmptyDict
    /\ \E var_supplied \in BOOLEAN :
        /\ translated_var \in (IF var_supplied THEN TranslatedVars ELSE {EmptyDict})
        /\ hist = [var_supplied |-> var_supplied, steps |-> <<>>, tv0 |-> translated_var,
                   tv_before |-> translated_var, ds_before |-> dataset]
    /\ pc = parse_steps(hist.var_supplied)[1]

\* the call s of parse starts
Step(s) ==
    /\ exc = NoExc
    /\ pc = s
    /\ pc' = step_after(parse_steps(hist.var_supplied), s)
    /\ hist' = [hist EXCEPT !.steps = Append(@, s),
                            !.tv_before = translated_var,
                            !.ds_before = dataset]
    /\ UNCHANGED <<d, new_attr_d, our_var, ds_var, skip_units, call, ret>>

\* self.normalize_ds_attrs(ds)
ParseNormalizeDsAttrs ==
    /\ pc = "normalize_ds_attrs"
    /\ \E r \in {normalize_ds_attrs(attrs_of(dataset), ds_variables(dataset))} :
        /\ Step("normalize_ds_attrs")
        /\ dataset' = set_attrs(dataset, r.ds)
        /\ attrs_backup' = r.attrs_backup
        /\ var_attrs_restore' = update(var_attrs_restore, r.var_attrs_restore)
        /\ exc' = r.exc
        /\ UNCHANGED <<translated_var, logged>>

\* ds = xr.decode_cf(ds, ...): the time values are decoded, which moves
\* units and calendar of the time coordinate to its encoding, or are not
ParseDecodeCf ==
    /\ pc = "decode_cf"
    /\ \E decoded \in BOOLEAN :
        /\ Step("decode_cf")
        /\ dataset' =
            IF decoded
            THEN LET a == dataset.vars[n_time].attrs
                     moved == DOMAIN a \cap {k_units, k_calendar}
                 IN  [dataset EXCEPT !.cftime_cal = Get(a, k_calendar, c_standard),
                                     !.encoding = [k \in moved |-> a[k]],
                                     !.vars[n_time].attrs = [k \in DOMAIN a \ moved |-> a[k]]]
            ELSE dataset
        /\ UNCHANGED <<attrs_backup, var_attrs_restore, translated_var, logged, exc>>

\* ds = ds.cf.guess_coord_axis(): its outcome is the classification
\* dataset.class that the accessor reads
ParseGuessCoordAxis ==
    /\ Step("guess_coord_axis")
    /\ UNCHANGED <<dataset, attrs_backup, var_attrs_restore, translated_var, logged, exc>>

\* self.restore_attrs(ds)
ParseRestoreAttrs ==
    /\ pc = "restore_attrs"
    /\ \E r \in {restore_attrs(attrs_of(dataset), attrs_backup, var_attrs_restore,
              ds_variables(dataset))} :
        /\ Step("restore_attrs")
        /\ dataset' = set_attrs(dataset, r.ds)
        /\ logged' = logged \o r.logged
        /\ exc' = r.exc
        /\ UNCHANGED <<attrs_backup, var_attrs_restore, translated_var>>

\* self.reconcile_names(translated_var, ds, translated_var.name, update_name=False)
ParseReconcileNames ==
    /\ pc = "reconcile_names"
    /\ \E r \in {reconcile_names(translated_var.d, dataset, translated_var.d[k_name], FALSE)} :
        /\ Step("reconcile_names")
        /\ translated_var' = [translated_var EXCEPT !.d = r.our_var]
        /\ exc' = r.exc
        /\ UNCHANGED <<dataset, attrs_backup, var_attrs_restore, logged>>

\* self.reconcile_units(translated_var, ds[translated_var.name])
ParseReconcileUnits ==
    /\ pc = "reconcile_units"
    /\ \E r \in {reconcile_units(translated_var.d, dataset.vars[translated_var.d[k_name]],
              skip_units)} :
        /\ Step("reconcile_units")
        /\ translated_var' = [translated_var EXCEPT !.d = r.our_var]
        /\ logged' = logged \o r.logged
        /\ exc' = r.exc
        /\ UNCHANGED <<dataset, attrs_backup, var_attrs_restore>>

\* self.reconcile_dimension_coords(translated_var, ds)
ParseReconcileDimensionCoords ==
    /\ pc = "reconcile_dimension_coords"
    /\ \E r \in {reconcile_dimension_coords(translated_var, dataset, skip_units)} :
        /\ Step("reconcile_dimension_coords")
        /\ translated_var' = r.tv
        /\ logged' = logged \o r.logged
        /\ exc' = r.exc
        /\ UNCHANGED <<dataset, attrs_backup, var_attrs_restore>>

\* self.reconcile_scalar_coords(translated_var, ds)
ParseReconcileScalarCoords ==
    /\ pc = "reconcile_scalar_coords"
    /\ \E r \in {reconcile_scalar_coords(translated_var, dataset, skip_units)} :
        /\ Step("reconcile_scalar_coords")
        /\ translated_var' = r.tv
        /\ logged' = logged \o r.logged
        /\ exc' = r.exc
        /\ UNCHANGED <<dataset, attrs_backup, var_attrs_restore>>

\* self.check_calendar(ds), the first statement of check_ds_attrs
ParseCheckCalendar ==
    /\ pc = "check_calendar"
    /\ \E r \in {check_calendar(dataset)} :
        /\ Step("check_calendar")
        /\ dataset' = r.ds
        /\ logged' = logged \o r.logged
        /\ exc' = r.exc
        /\ UNCHANGED <<attrs_backup, var_attrs_restore, translated_var>>

\* the loop of check_ds_attrs over names_to_check
ParseCheckNames ==
    /\ Step("check_names")
    /\ exc' = check_names(dataset,
            IF hist.var_supplied
            THEN <<translated_var.d[k_name]>> \o dataset.vars[translated_var.d[k_name]].dims
            ELSE ds_variables(dataset),
            skip_units, 1)
    /\ UNCHANGED <<dataset, attrs_backup, var_attrs_restore, translated_var, logged>>

NextParse ==
    \/ ParseNormalizeDsAttrs
    \/ ParseDecodeCf
    \/ ParseGuessCoordAxis
    \/ ParseRestoreAttrs
    \/ ParseReconcileNames
    \/ ParseReconcileUnits
    \/ ParseReconcileDimensionCoords
    \/ ParseReconcileScalarCoords
    \/ ParseCheckCalendar
    \/ ParseCheckNames

SpecParse ==
    InitParse /\ [][NextParse]_vars


----------------------------------------------------------------------------
(* Claims about parse and reconcile_variable *)

\* the call started last
LastStep ==
    IF hist.steps = <<>> THEN "none" ELSE hist.steps[Len(hist.steps)]

\* s is a prefix of t
IsPrefix(s, t) ==
    Len(s) <= Len(t) /\ \A i \in 1..Len(s) : s[i] = t[i]

\* the calls of hist.steps that are among names, in order
StepsAmong(names) ==
    SelectSeq(hist.steps, LAMBDA s : s \in names)

\* C13: parse starts its calls in the order normalize attributes, decode,
\* axis guess, restore attributes, the calls of reconcile_variable (if and
\* only if a variable was supplied), calendar detection, presence checks;
\* a call starts only when every call before it has returned, and no call
\* starts after one has raised
C13_ParseRunsItsStepsInOrder ==
    /\ [](IsPrefix(hist.steps,
            <<"normalize_ds_attrs", "decode_cf", "guess_coord_axis", "restore_attrs">>
            \o (IF hist.var_supplied
                THEN <<"reconcile_names", "reconcile_units", "reconcile_dimension_coords",
                       "reconcile_scalar_coords">>
                ELSE <<>>)
            \o <<"check_calendar", "check_names">>))
    /\ [][exc # NoExc => hist'.steps = hist.steps]_vars

\* reconcile_variable raised, and parse had been given a variable
C13_Witness ==
    /\ hist.var_supplied
    /\ exc # NoExc
    /\ LastStep \in {"reconcile_names", "reconcile_units", "reconcile_dimension_coords",
                     "reconcile_scalar_coords"}
    /\ Len(hist.steps) >= 5

\* C14: reconcile_variable reconciles the variable's own names, then its
\* units, then its dimension coordinates, then its scalar coordinates; once
\* a call has raised the expected record is not touched again, so after an
\* error on the variable itself its coordinate records are as parse got them
C14_ReconcileVariableOrder ==
    /\ [](IsPrefix(StepsAmong({"reconcile_names", "reconcile_units",
                               "reconcile_dimension_coords", "reconcile_scalar_coords"}),
                   <<"reconcile_names", "reconcile_units", "reconcile_dimension_coords",
                     "reconcile_scalar_coords">>))
    /\ [](exc # NoExc /\ LastStep \in {"reconcile_names", "reconcile_units"}
            => /\ translated_var.dims = hist.tv0.dims
               /\ translated_var.scalars = hist.tv0.scalars)
    /\ [][exc # NoExc => translated_var' = translated_var]_vars

\* reconcile_units raised on the variable itself after correcting its units
C14_Witness ==
    /\ LastStep = "reconcile_units"
    /\ exc.type = "ValueError"
    /\ translated_var.d # hist.tv0.d
    /\ translated_var.dims # <<>>

\* reconcile_dimension_coords was the call started last
CalledReconcileDimensionCoords ==
    LastStep = "reconcile_dimension_coords"

\* the axis labels of the dimensions of the dataset's variable differ from
\* the expected ones
AxisLabelsDiffer ==
    {hist.tv_before.dims[i].axis : i \in DOMAIN hist.tv_before.dims}
        # DOMAIN da_dim_axes(hist.ds_before, hist.tv_before.d[k_name])

\* C15: when the expected set of dimension axis labels differs from the
\* dataset's, reconcile_dimension_coords raises the dimensionality error
\* (a TypeError) and leaves the expected record and the dataset as they were
C15_DimensionalityErrorBeforeAnyChange ==
    CalledReconcileDimensionCoords /\ AxisLabelsDiffer
        => /\ exc.type = "TypeError"
           /\ translated_var = hist.tv_before
           /\ dataset = hist.ds_before

\* the ground-truth coordinate on the axis of the first expected scalar
\* coordinate is a member of the dataset of size 1 that has the expected
\* name, standard_name and units
ScalarIsSizeOneMember ==
    /\ hist.tv_before.scalars # <<>>
    /\ LET coord == hist.tv_before.scalars[1]
           found == da_axes(hist.ds_before, hist.tv_before.d[k_name])
       IN  /\ coord.axis \in DOMAIN found
           /\ found[coord.axis] \in DOMAIN hist.ds_before.vars
           /\ hist.ds_before.vars[found[coord.axis]].size = 1
           /\ found[coord.axis] = coord.d[k_name]
           /\ hist.ds_before.vars[found[coord.axis]].attrs[k_standard_name]
                = coord.d[k_standard_name]
           /\ hist.ds_before.vars[found[coord.axis]].attrs[k_units] = coord.d[k_units]

\* C20: for an expected scalar coordinate whose ground-truth coordinate is a
\* dataset member of size 1, reconcile_scalar_coords reconciles name, value
\* and units of the scalar coordinate record against that coordinate: with
\* all of them in agreement it returns and the record holds the dataset's
\* value
C20_ScalarRecordIsReconciled ==
    LastStep = "reconcile_scalar_coords" /\ ScalarIsSizeOneMember
        => /\ exc = NoExc
           /\ translated_var.scalars[1].value
                = dataset.vars[translated_var.scalars[1].d[k_name]].value


----------------------------------------------------------------------------
(* check_calendar called on its own *)

\* dicts a calendar can be read from: silent; a calendar of the vocabulary;
\* a synonym; a case variant of a vocabulary entry; an unknown calendar; the
\* key as a case variant; the key as the prefix 'cal'
CalendarDicts ==
    {EmptyDict,
     [k \in {k_calendar} |-> c_noleap],
     [k \in {k_calendar} |-> c_365_day],
     [k \in {k_calendar} |-> c_Gregorian],
     [k \in {k_calendar} |-> c_lunar],
     [k \in {k_Calendar} |-> c_julian],
     [k \in {k_cal} |-> c_360_day]}

\* a decoded dataset: the structure base, the calendar of the decoded time
\* values, the encoding and attrs of the time coordinate and the attrs of
\* the dataset
CalendarDataset(base, cftime_cal, encoding, t_attrs, ds_attrs) ==
    [attrs |-> ds_attrs,
     vars |-> [v \in DOMAIN base.vars |->
        [dims |-> base.vars[v].dims,
         size |-> base.vars[v].size,
         attrs |-> IF v = n_time THEN update(Attrs3(<<>>, v, u_K), t_attrs)
                   ELSE Attrs3(<<>>, v, u_K)]],
     class |-> base.class,
     coords_of |-> base.coords_of,
     cftime_cal |-> cftime_cal,
     encoding |-> encoding]

\* datasets with a time axis, and static datasets
CalendarDatasets ==
    {CalendarDataset(Structure(<<n_time, n_lat, n_lon>>, {n_time, n_lat, n_lon}, 2,
                               {n_time, n_lat, n_lon}),
                     cal, enc, t_attrs, ds_attrs) :
        cal \in {None, c_standard}, enc \in CalendarDicts,
        t_attrs \in CalendarDicts, ds_attrs \in CalendarDicts}
    \cup {CalendarDataset(Structure(<<n_lat, n_lon>>, {n_lat, n_lon}, 2, {n_lat, n_lon}),
                          None, EmptyDict, EmptyDict, ds_attrs) :
        ds_attrs \in CalendarDicts}

InitCalendar ==
    /\ d = EmptyDict
    /\ new_attr_d = EmptyDict
    /\ our_var = EmptyDict
    /\ ds_var = EmptyDict
    /\ skip_units = init_skip_units(FALSE)
    /\ call = NoCall
    /\ ret = None
    /\ logged = <<>>
    /\ exc = NoExc
    /\ dataset \in CalendarDatasets
    /\ attrs_backup = EmptyDict
    /\ var_attrs_restore = EmptyDict
    /\ translated_var = EmptyDict
    /\ hist = [ds_before |-> dataset]
    /\ pc = "check_calendar"

\* parser.check_calendar(ds)
CheckCalendar ==
    /\ exc = NoExc
    /\ pc = "check_calendar"
    /\ \E r \in {check_calendar(dataset)} :
        /\ call' = Calling("check_calendar", <<>>)
        /\ dataset' = r.ds
        /\ logged' = r.logged
        /\ exc' = r.exc
        /\ pc' = "done"
    /\ UNCHANGED <<d, new_attr_d, our_var, ds_var, skip_units, ret, attrs_backup,
                   var_attrs_restore, translated_var, hist>>

NextCalendar ==
    CheckCalendar

SpecCalendar ==
    InitCalendar /\ [][NextCalendar]_vars

CalledCheckCalendar ==
    call # NoCall /\ call.op = "check_calendar"

\* the time coordinates of the dataset in the order check_calendar sees them
TimeCoords(ds) ==
    sorted({c \in DOMAIN ds.class : ds.class[c] = "T"})

\* what a source dict supplies as calendar: the value of the key 'calendar',
\* of a case or punctuation variant of it, or of a key starting with 'cal'
Supplied(src) ==
    IF k_calendar \in DOMAIN src THEN src[k_calendar]
    ELSE IF \E k \in DOMAIN src : str_munge(k) = k_calendar
        THEN src[CHOOSE k \in DOMAIN src : str_munge(k) = k_calendar]
    ELSE IF \E k \in DOMAIN src : startswith(k, k_cal)
        THEN src[CHOOSE k \in DOMAIN src : startswith(k, k_cal)]
    ELSE None

\* the sources in the order of priority: decoded timestamps, encoding of the
\* time coordinate t, its attributes, attributes of the dataset
CalendarSources(ds, t) ==
    <<ds.cftime_cal, Supplied(ds.encoding), Supplied(ds.vars[t].attrs), Supplied(ds.attrs)>>

\* the vocabulary entry a calendar stands for, the fallback for none
Canonical(v) ==
    IF v \in _cf_calendars THEN v
    ELSE IF \E c \in _cf_calendars : str_munge(c) = str_munge(v)
        THEN CHOOSE c \in _cf_calendars : str_munge(c) = str_munge(v)
    ELSE fallback_cal

\* the calendar check_calendar is to set
ExpectedCalendar(ds, t) ==
    LET src == CalendarSources(ds, t)
        supplying == {i \in 1..Len(src) : Truthy(src[i])}
    IN  IF supplying = {} THEN fallback_cal
        ELSE Canonical(src[CHOOSE i \in supplying : \A j \in supplying : i <= j])

\* C21: check_calendar on a dataset with a time axis returns with the first
\* time coordinate's calendar attribute set to the canonicalized calendar of
\* the first source that supplies one (decoded timestamps, encoding,
\* attributes, dataset attributes) or to the fallback, always a member of the
\* vocabulary; on a dataset without time axis it changes nothing
C21_CalendarFromFirstSource ==
    CalledCheckCalendar =>
        /\ exc = NoExc
        /\ IF TimeCoords(hist.ds_before) = <<>> THEN dataset = hist.ds_before
           ELSE LET t == TimeCoords(hist.ds_before)[1]
                IN  /\ k_calendar \in DOMAIN dataset.vars[t].attrs
                    /\ dataset.vars[t].attrs[k_calendar] = ExpectedCalendar(hist.ds_before, t)
                    /\ dataset.vars[t].attrs[k_calendar] \in _cf_calendars

\* C21 apart from the NameError of guess_attr
C21_HoldsUnlessNameError ==
    (CalledCheckCalendar /\ exc # NameErrorSelf) => C21_CalendarFromFirstSource


----------------------------------------------------------------------------
(* Reference integrity: get_unmapped_names *)

\* "formula_terms"
k_formula_terms ==
    <<"f", "o", "r", "m", "u", "l", "a", "_", "t", "e", "r", "m", "s">>

\* "coordinates"
k_coordinates ==
    <<"c", "o", "o", "r", "d", "i", "n", "a", "t", "e", "s">>

\* "ancillary_variables"
k_ancillary_variables ==
    <<"a", "n", "c", "i", "l", "l", "a", "r", "y", "_", "v", "a", "r", "i", "a", "b", "l", "e", "s">>

\* "ps"
n_ps ==
    <<"p", "s">>

\* "p0"
n_p0 ==
    <<"p", "0">>

\* "bnds"
n_bnds ==
    <<"b", "n", "d", "s">>

\* the names in the order the model visits them (the code iterates a set)
name_order ==
    <<n_ua, n_time, n_plev19, n_lat, n_lon, n_lat_bnds, n_ps, n_height, n_bnds>>

\* str.split(): the tokens of s from position i on, cur being the token read
\* so far
RECURSIVE split_from(_, _, _)
split_from(s, i, cur) ==
    IF i > Len(s) THEN (IF cur = <<>> THEN <<>> ELSE <<cur>>)
    ELSE IF s[i] \in Whitespace
        THEN (IF cur = <<>> THEN <<>> ELSE <<cur>>) \o split_from(s, i + 1, <<>>)
    ELSE split_from(s, i + 1, Append(cur, s[i]))

\* s.split()
split(s) ==
    split_from(s, 1, <<>>)

\* mapping.split(":"): the parts of s from position i on, empty parts kept
RECURSIVE split_colon_from(_, _, _)
split_colon_from(s, i, cur) ==
    IF i > Len(s) THEN <<cur>>
    ELSE IF s[i] = ":" THEN <<cur>> \o split_colon_from(s, i + 1, <<>>)
    ELSE split_colon_from(s, i + 1, Append(cur, s[i]))

\* the whitespace at position i of s belongs to a match of \s*:\s*
in_colon_match(s, i) ==
    /\ s[i] \in Whitespace
    /\ \/ \E j \in (i + 1)..Len(s) :
            s[j] = ":" /\ \A k \in i..(j - 1) : s[k] \in Whitespace
       \/ \E j \in 1..(i - 1) :
            s[j] = ":" /\ \A k \in (j + 1)..i : s[k] \in Whitespace

\* re.sub(r"\s*:\s*", ":", s) from position i on
RECURSIVE re_sub_colon(_, _)
re_sub_colon(s, i) ==
    IF i > Len(s) THEN <<>>
    ELSE IF in_colon_match(s, i) THEN re_sub_colon(s, i + 1)
    ELSE <<s[i]>> \o re_sub_colon(s, i + 1)

\* the loop of formula_terms over the mappings from the i-th on: key, value =
\* mapping.split(":") raises ValueError unless there are exactly two parts
RECURSIVE terms_from(_, _, _)
terms_from(mappings, i, terms) ==
    IF i > Len(mappings) THEN Return(terms)
    ELSE IF Len(split_colon_from(mappings[i], 1, <<>>)) # 2
        THEN Raise([type |-> "ValueError", msg |-> "values to unpack"])
    ELSE terms_from(mappings, i + 1,
            Put(terms, split_colon_from(mappings[i], 1, <<>>)[1],
                       split_colon_from(mappings[i], 1, <<>>)[2]))

\* MDTFDataArrayAccessorMixin.formula_terms of a DataArray with attrs
formula_terms(attrs) ==
    terms_from(split(re_sub_colon(Get(attrs, k_formula_terms, <<>>), 1)), 1, EmptyDict)

\* ds.cf.get_associated_variable_names(name): the names listed in the
\* attributes of ds[name] that refer to other variables
get_associated_variable_names(ds, name) ==
    [key \in {k_bounds, k_coordinates, k_ancillary_variables} |->
        split(Get(ds_getitem(ds, name).attrs, key, <<>>))]

\* set(ds.dims).union(ds.variables), leaving out ds.dims
all_arr_names_variables_only(ds) ==
    DOMAIN ds.vars

\* set(ds.dims).union(ds.variables)
all_arr_names(ds) ==
    ds_dims(ds) \cup DOMAIN ds.vars

\* all_attr_names after the loop of lines 1011-1012
all_attr_names(ds) ==
    DOMAIN ds.attrs
        \cup UNION {DOMAIN ds_getitem(ds, name).attrs : name \in all_arr_names(ds)}

\* refs of lines 1018-1022 for one name
refs_of(ds, name) ==
    CHOOSE q \in {
        IF ft.exc # NoExc THEN ft
        ELSE Return(Range(ds_getitem(ds, name).dims)
                \cup UNION {Range(assoc[key]) : key \in DOMAIN assoc}
                \cup Range(ft.ret)) :
        ft \in {formula_terms(ds_getitem(ds, name).attrs)},
        assoc \in {get_associated_variable_names(ds, name)}} : TRUE

\* lookup[ref].add(name) for every ref
add_refs(lookup, refs, name) ==
    [ref \in DOMAIN lookup \cup refs |->
        (IF ref \in DOMAIN lookup THEN lookup[ref] ELSE {})
            \cup (IF ref \in refs THEN {name} ELSE {})]

\* the loop of lines 1017-1024 from the i-th name on
RECURSIVE build_lookup(_, _, _, _)
build_lookup(ds, names, i, lookup) ==
    IF i > Len(names) THEN Return(lookup)
    ELSE CHOOSE q \in {
            IF refs.exc # NoExc THEN refs
            ELSE build_lookup(ds, names, i + 1, add_refs(lookup, refs.ret, names[i])) :
            refs \in {refs_of(ds, names[i])}} : TRUE

\* DatasetParser.get_unmapped_names(ds)
get_unmapped_names(ds) ==
    CHOOSE q \in {
        IF lookup.exc # NoExc THEN lookup
        ELSE Return([ref \in {r \in DOMAIN lookup.ret :
                                r \notin all_arr_names(ds) /\ r \notin all_attr_names(ds)} |->
                        lookup.ret[ref]]) :
        lookup \in {build_lookup(ds,
                        SelectSeq(name_order, LAMBDA n : n \in all_arr_names(ds)),
                        1, EmptyDict)}} : TRUE

\* formula_terms attributes of the vertical coordinate: the text in the file
\* (none: <<>>), the names it refers to, and whether a mapping in it is not
\* of the form term: name
FormulaTerms ==
    {[text |-> <<>>, names |-> {}, malformed |-> FALSE],
     [text |-> <<"a", ":", " ", "p", "s">>, names |-> {n_ps}, malformed |-> FALSE],
     [text |-> <<"a", " ", ":", " ", "p", "s", " ", " ", "b", ":", "p", "0">>, names |-> {n_ps, n_p0}, malformed |-> FALSE],
     [text |-> <<"a", ":", "u", "n", "i", "t", "s">>, names |-> {k_units}, malformed |-> FALSE],
     [text |-> <<"p", "s">>, names |-> {}, malformed |-> TRUE],
     [text |-> <<"a", ":", "b", ":", "p", "s">>, names |-> {}, malformed |-> TRUE]}

\* coordinates attributes of ua: the text in the file and the names listed
CoordinatesAttrs ==
    {[text |-> <<>>, names |-> {}],
     [text |-> <<"h", "e", "i", "g", "h", "t">>, names |-> {n_height}],
     [text |-> <<"h", "e", "i", "g", "h", "t", " ", "p", "s">>, names |-> {n_height, n_ps}]}

\* attrs with the attribute key added when text is not empty
WithAttr(attrs, key, text) ==
    IF text = <<>> THEN attrs ELSE Put(attrs, key, text)

\* a dataset with ua on (time, plev19, lat, lon), lon having no coordinate
\* variable; lat may name a bounds variable, plev19 may carry formula terms,
\* ua may list coordinates; lat_bnds, ps and height are members or not; the
\* dataset may have an attribute p0
UnmappedDataset(lat_bounds, ft, coords, members, ds_attrs) ==
    [attrs |-> ds_attrs,
     vars |-> [v \in {n_ua, n_time, n_plev19, n_lat} \cup members |->
        [dims |-> IF v = n_ua THEN <<n_time, n_plev19, n_lat, n_lon>>
                  ELSE IF v = n_lat_bnds THEN <<n_lat, n_bnds>>
                  ELSE IF v = n_ps THEN <<n_time, n_lat>>
                  ELSE IF v = n_height THEN <<>>
                  ELSE <<v>>,
         attrs |-> IF v = n_ua
                       THEN WithAttr(Attrs3(<<>>, v, u_K), k_coordinates, coords.text)
                   ELSE IF v = n_plev19
                       THEN WithAttr(Attrs3(<<>>, v, u_K), k_formula_terms, ft.text)
                   ELSE IF v = n_lat
                       THEN WithAttr(Attrs3(<<>>, v, u_K), k_bounds,
                                     IF lat_bounds THEN n_lat_bnds ELSE <<>>)
                   ELSE IF v = n_lat_bnds THEN EmptyDict
                   ELSE Attrs3(<<>>, v, u_K)]]]

InitUnmapped ==
    /\ d = EmptyDict
    /\ new_attr_d = EmptyDict
    /\ our_var = EmptyDict
    /\ ds_var = EmptyDict
    /\ skip_units = init_skip_units(FALSE)
    /\ call = NoCall
    /\ ret = None
    /\ logged = <<>>
    /\ exc = NoExc
    /\ attrs_backup = EmptyDict
    /\ var_attrs_restore = EmptyDict
    /\ translated_var = EmptyDict
    /\ \E lat_bounds \in BOOLEAN, ft \in FormulaTerms, coords \in CoordinatesAttrs,
          members \in SUBSET {n_lat_bnds, n_ps, n_height},
          ds_attrs \in {EmptyDict, [k \in {n_p0} |-> v_500]} :
        /\ dataset = UnmappedDataset(lat_bounds, ft, coords, members, ds_attrs)
        /\ hist = [ds_before |-> dataset,
                   malformed |-> ft.malformed,
                   refs |-> [v \in {n_ua, n_plev19, n_lat} |->
                        IF v = n_ua THEN coords.names
                        ELSE IF v = n_plev19 THEN ft.names
                        ELSE IF lat_bounds THEN {n_lat_bnds} ELSE {}]]
    /\ pc = "get_unmapped_names"

\* DatasetParser.get_unmapped_names(ds)
GetUnmappedNames ==
    /\ exc = NoExc
    /\ pc = "get_unmapped_names"
    /\ \E r \in {get_unmapped_names(dataset)} :
        /\ call' = Calling("get_unmapped_names", <<>>)
        /\ ret' = r.ret
        /\ exc' = r.exc
        /\ pc' = "done"
    /\ UNCHANGED <<d, new_attr_d, our_var, ds_var, skip_units, logged, dataset,
                   attrs_backup, var_attrs_restore, translated_var, hist>>

NextUnmapped ==
    GetUnmappedNames

SpecUnmapped ==
    InitUnmapped /\ [][NextUnmapped]_vars

CalledGetUnmappedNames ==
    call # NoCall /\ call.op = "get_unmapped_names"

\* the names a variable of the input dataset refers to: its dimensions and
\* the names its bounds, coordinates and formula_terms attributes list
ReferencedBy(v) ==
    (IF v \in DOMAIN hist.ds_before.vars THEN Range(hist.ds_before.vars[v].dims) ELSE {v})
        \cup (IF v \in DOMAIN hist.refs THEN hist.refs[v] ELSE {})

\* array and dimension names of the input dataset
ArrayNames ==
    DOMAIN hist.ds_before.vars
        \cup UNION {Range(hist.ds_before.vars[v].dims) : v \in DOMAIN hist.ds_before.vars}

\* attribute names of the input dataset and of its variables
AttributeNames ==
    DOMAIN hist.ds_before.attrs
        \cup UNION {DOMAIN hist.ds_before.vars[v].attrs : v \in DOMAIN hist.ds_before.vars}

\* the mapping get_unmapped_names is to return
ExpectedUnmapped ==
    [ref \in {r \in UNION {ReferencedBy(v) : v \in ArrayNames} :
                r \notin ArrayNames /\ r \notin AttributeNames} |->
        {v \in ArrayNames : ref \in ReferencedBy(v)}]

\* C22: get_unmapped_names returns the mapping whose keys are exactly the
\* names some variable refers to (dimension list, bounds and coordinates
\* attributes, formula terms) that are neither array or dimension names nor
\* attribute names, each with the set of all variables referring to it; it
\* raises only for a formula_terms attribute that is not a list of
\* term: name mappings; the dataset is not modified
C22_UnmappedNamesAreTheDanglingReferences ==
    CalledGetUnmappedNames =>
        /\ dataset = hist.ds_before
        /\ exc # NoExc => hist.malformed
        /\ exc = NoExc => ret = ExpectedUnmapped

\* a dangling bounds attribute of lat is reported under the absent name,
\* next to a dangling formula term
C22_Witness ==
    /\ CalledGetUnmappedNames
    /\ exc = NoExc
    /\ n_lat_bnds \notin DOMAIN dataset.vars
    /\ n_lat_bnds \in DOMAIN ret
    /\ ret[n_lat_bnds] = {n_lat}
    /\ n_ps \in DOMAIN ret
    /\ ret[n_ps] = {n_ua, n_plev19}
    /\ n_p0 \notin DOMAIN ret
    /\ n_p0 \in hist.refs[n_plev19]


----------------------------------------------------------------------------
(* Claim about the normalizer as a whole *)

CalledNormalizer ==
    call.op \in {"normalize_attr", "normalize_standard_name", "normalize_unit",
                 "normalize_calendar"}

\* C23: normalize_attr, normalize_standard_name, normalize_unit and
\* normalize_calendar (the calls normalize_ds_attrs makes for every variable)
\* return normally for every attribute dict, also when the key is present
\* only as a case or punctuation variant, when several keys match and when
\* none does
C23_NormalizationNeverRaises ==
    CalledNormalizer => exc = NoExc


----------------------------------------------------------------------------
(* One parser instance used for two datasets in turn.  The attribute part  *)
(* of parse (normalize_ds_attrs, the decode step, restore_attrs) runs on   *)
(* hist.first and then, whether or not the first run raised, on            *)
(* hist.second.                                                            *)

\* attribute dicts of a variable as read from a file: none; units with
\* white space; units to rewrite; a key the normalizer cannot return for
FileAttrDicts ==
    {EmptyDict,
     [k \in {k_units} |-> u_K_sp],
     [k \in {k_standard_name, k_units} |-> IF k = k_units THEN u_mb ELSE n_precipitation_flux],
     [k \in {k_Units} |-> u_K]}

\* datasets opened with decode_cf=False, with and without the variable lat
FileDatasets ==
    UNION {
        {[attrs |-> a,
          vars |-> [v \in V |-> IF v = n_ua THEN ua ELSE IF v = n_time THEN t ELSE lat]] :
            a \in {EmptyDict, [k \in {k_calendar} |-> c_noleap_sp]},
            ua \in FileAttrDicts,
            t \in {EmptyDict, [k \in {k_units, k_calendar} |->
                                    IF k = k_units THEN u_K ELSE c_noleap]},
            lat \in {EmptyDict, [k \in {k_units} |-> u_K_sp]}} :
        V \in {{n_ua, n_time}, {n_ua, n_time, n_lat}}
    }

\* xr.decode_cf: when the time values are decoded, units and calendar of the
\* time coordinate leave its attrs
decode_times(ds, decoded) ==
    IF decoded
    THEN [ds EXCEPT !.vars[n_time] =
            [k \in DOMAIN ds.vars[n_time] \ {k_units, k_calendar} |-> ds.vars[n_time][k]]]
    ELSE ds

InitTwoParses ==
    /\ d = EmptyDict
    /\ new_attr_d = EmptyDict
    /\ our_var = EmptyDict
    /\ ds_var = EmptyDict
    /\ skip_units = init_skip_units(FALSE)
    /\ call = NoCall
    /\ ret = None
    /\ logged = <<>>
    /\ exc = NoExc
    /\ dataset \in FileDatasets
    /\ attrs_backup = EmptyDict
    /\ var_attrs_restore = EmptyDict
    /\ translated_var = EmptyDict
    /\ \E second \in FileDatasets :
        hist = [run |-> 1, first |-> dataset, second |-> second, decoded |-> FALSE]
    /\ pc = "normalize_ds_attrs"

\* self.normalize_ds_attrs(ds)
TwoNormalizeDsAttrs ==
    /\ exc = NoExc
    /\ pc = "normalize_ds_attrs"
    /\ \E r \in {normalize_ds_attrs(dataset, ds_variables(dataset))} :
        /\ dataset' = r.ds
        /\ attrs_backup' = r.attrs_backup
        /\ var_attrs_restore' = update(var_attrs_restore, r.var_attrs_restore)
        /\ exc' = r.exc
        /\ pc' = "decode_cf"
    /\ UNCHANGED <<d, new_attr_d, our_var, ds_var, skip_units, call, ret, logged,
                   translated_var, hist>>

\* ds = xr.decode_cf(ds, ...); ds = ds.cf.guess_coord_axis()
TwoDecodeCf ==
    /\ exc = NoExc
    /\ pc = "decode_cf"
    /\ \E decoded \in BOOLEAN :
        /\ dataset' = decode_times(dataset, decoded)
        /\ hist' = [hist EXCEPT !.decoded = decoded]
    /\ pc' = "restore_attrs"
    /\ UNCHANGED <<d, new_attr_d, our_var, ds_var, skip_units, call, ret, logged, exc,
                   attrs_backup, var_attrs_restore, translated_var>>

\* self.restore_attrs(ds)
TwoRestoreAttrs ==
    /\ exc = NoExc
    /\ pc = "restore_attrs"
    /\ \E r \in {restore_attrs(dataset, attrs_backup, var_attrs_restore,
                               ds_variables(dataset))} :
        /\ dataset' = r.ds
        /\ logged' = r.logged
        /\ exc' = r.exc
    /\ pc' = "parsed"
    /\ UNCHANGED <<d, new_attr_d, our_var, ds_var, skip_units, call, ret,
                   attrs_backup, var_attrs_restore, translated_var, hist>>

\* the caller passes the next dataset to the same parser, after the first
\* parse returned or raised
ParseNextDataset ==
    /\ hist.run = 1
    /\ pc = "parsed" \/ exc # NoExc
    /\ dataset' = hist.second
    /\ exc' = NoExc
    /\ logged' = <<>>
    /\ pc' = "normalize_ds_attrs"
    /\ hist' = [hist EXCEPT !.run = 2]
    /\ UNCHANGED <<d, new_attr_d, our_var, ds_var, skip_units, call, ret,
                   attrs_backup, var_attrs_restore, translated_var>>

NextTwoParses ==
    \/ TwoNormalizeDsAttrs
    \/ TwoDecodeCf
    \/ TwoRestoreAttrs
    \/ ParseNextDataset

SpecTwoParses ==
    InitTwoParses /\ [][NextTwoParses]_vars

\* the second parse has returned
SecondParseDone ==
    hist.run = 2 /\ pc = "parsed" /\ exc = NoExc

\* what a fresh parser leaves after the same steps on hist.second alone: the
\* dataset and the two stores
FreshParse ==
    CHOOSE q \in {
        [ds |-> restore_attrs(decode_times(n.ds, hist.decoded), n.attrs_backup,
                              n.var_attrs_restore, ds_variables(hist.second)).ds,
         attrs_backup |-> n.attrs_backup,
         var_attrs_restore |-> n.var_attrs_restore] :
        n \in {normalize_ds_attrs(hist.second, ds_variables(hist.second))}} : TRUE

\* the attributes restored into the second dataset and the backups used for
\* it are those of a fresh parser
SecondParseAsFresh ==
    SecondParseDone =>
        /\ dataset = FreshParse.ds
        /\ attrs_backup = FreshParse.attrs_backup
        /\ \A v \in DOMAIN hist.second.vars :
            /\ v \in DOMAIN var_attrs_restore
            /\ var_attrs_restore[v] = FreshParse.var_attrs_restore[v]

\* C24: when one parser instance parses a dataset and then a second one,
\* what is restored into the second dataset and the backup stores used for
\* it are as with a fresh parser, and after the second call the stores hold
\* entries only for the second dataset's variables
C24_NoStateCarriedBetweenDatasets ==
    /\ SecondParseAsFresh
    /\ SecondParseDone => DOMAIN var_attrs_restore \subseteq DOMAIN hist.second.vars


----------------------------------------------------------------------------
(* parse with the configuration options the caller asked for *)

\* the datasets of parse, and datasets where ua or lat has no standard_name
ConfiguredDatasets ==
    ParseDatasets
    \cup {ParseDataset(s, [k \in {k_units} |-> u_kg_m2_s1],
                       CHOOSE l \in LatAttrs : l.attrs = Attrs3(<<>>, n_lat, u_K)) :
            s \in ParseStructures}
    \cup {ParseDataset(s, Attrs3(<<>>, n_precipitation_flux, u_kg_m2_s1),
                       [attrs |-> [k \in {k_units} |-> u_K], bnds |-> EmptyDict]) :
            s \in ParseStructures}

\* hist.disable_checks: the caller asked for disable_CF_name_checks and
\* disable_unit_checks; hist.ds0: the dataset parse was given
InitParseConfigured ==
    /\ d = EmptyDict
    /\ new_attr_d = EmptyDict
    /\ our_var = EmptyDict
    /\ ds_var = EmptyDict
    /\ call = NoCall
    /\ ret = None
    /\ logged = <<>>
    /\ exc = NoExc
    /\ dataset \in ConfiguredDatasets
    /\ attrs_backup = EmptyDict
    /\ var_attrs_restore = EmptyDict
    /\ \E var_supplied \in BOOLEAN, disable_checks \in BOOLEAN :
        /\ skip_units = init_skip_units(disable_checks)
        /\ translated_var \in (IF var_supplied THEN TranslatedVars ELSE {EmptyDict})
        /\ hist = [var_supplied |-> var_supplied, steps |-> <<>>, tv0 |-> translated_var,
                   tv_before |-> translated_var, ds_before |-> dataset,
                   disable_checks |-> disable_checks, ds0 |-> dataset]
    /\ pc = parse_steps(hist.var_supplied)[1]

SpecParseConfigured ==
    InitParseConfigured /\ [][NextParse]_vars

\* parse has returned or raised
ParseFinished ==
    pc = "return" \/ exc # NoExc

\* the variables whose attributes the final checks are to look at
CheckedVariables ==
    IF hist.var_supplied
    THEN {hist.tv0.d[k_name]} \cup Range(hist.ds0.vars[hist.tv0.d[k_name]].dims)
    ELSE DOMAIN hist.ds0.vars

\* the input dataset supplies no standard_name or no units for v
LacksMetadata(v) ==
    \/ v \notin DOMAIN hist.ds0.vars
    \/ k_standard_name \notin DOMAIN hist.ds0.vars[v].attrs
    \/ k_units \notin DOMAIN hist.ds0.vars[v].attrs

\* the error of check_standard_name or check_unit
MissingMetadataError ==
    /\ exc.type = "TypeError"
    /\ exc.msg \in {"standard_name not found on variable", "units not found on variable"}

\* when parse returns in the default configuration every checked variable
\* had standard_name and units in the input
C25_ReturnsOnlyWithMetadata ==
    (~ hist.disable_checks /\ pc = "return" /\ exc = NoExc)
        => \A v \in CheckedVariables : ~ LacksMetadata(v)

\* in the default configuration a checked variable without standard_name or
\* units makes parse raise one of its errors
C25_MissingMetadataRaises ==
    (~ hist.disable_checks /\ ParseFinished /\ \E v \in CheckedVariables : LacksMetadata(v))
        => exc.type \in {"TypeError", "ValueError"}

\* with the checks disabled parse does not raise the missing-metadata error
C25_DisabledChecksOnlyWarn ==
    (hist.disable_checks /\ ParseFinished) => ~ MissingMetadataError

\* C25: in the default configuration parse raises a missing-metadata error
\* whenever a checked variable (every variable, or the target variable and
\* its dimensions) has no standard_name or no units in the input, so that a
\* normal return means all were supplied; with the checks disabled the same
\* situation only logs a warning
C25_FinalPresenceChecks ==
    /\ C25_ReturnsOnlyWithMetadata
    /\ C25_MissingMetadataRaises
    /\ C25_DisabledChecksOnlyWarn


----------------------------------------------------------------------------
(* Claim about is_static *)

\* a coordinate of the dataset (obj = None) or of the variable obj is
\* recognized as time axis
HasTimeAxis(obj) ==
    \E c \in search_in(dataset, obj) : dataset.class[c] \in {"T", "time"}

\* C26: is_static is true exactly when the dataset or variable has no time
\* (T) axis, and false when a time axis is found
C26_StaticIffNoTimeAxis ==
    call.op = "is_static" => (ret = TRUE <=> ~ HasTimeAxis(call.args.obj))


----------------------------------------------------------------------------
(* Claim about dimension coordinates of size 1 *)

\* name, standard_name, units and bounds of every expected dimension
\* coordinate reconcile with the dataset's coordinate on the same axis
CoordinatesReconcile ==
    reconcile_coords(hist.tv_before.dims, hist.ds_before,
                     da_dim_axes(hist.ds_before, hist.tv_before.d[k_name]),
                     skip_units, 1).exc = NoExc

\* a dimension of the dataset's variable has size 1
HasDimensionOfSizeOne ==
    \E c \in Range(hist.ds_before.vars[hist.tv_before.d[k_name]].dims) :
        c \in DOMAIN hist.ds_before.vars /\ hist.ds_before.vars[c].size = 1

\* C27: reconcile_dimension_coords completes without error whenever the
\* expected and the dataset's axis label sets are equal and every
\* coordinate reconciles, also for a variable without Z axis that has a
\* dimension of size 1
C27_SizeOneDimensionOnlyLogs ==
    (CalledReconcileDimensionCoords /\ ~ AxisLabelsDiffer /\ CoordinatesReconcile)
        => exc = NoExc


----------------------------------------------------------------------------
(* reconcile_scalar_value_and_units and its placeholder attribute *)

\* a second value of a scalar coordinate
v_850 ==
    <<"8", "5", "0">>

\* the unit strings of the scalar coordinates compared
ScalarUnits ==
    {u_kg_m2_s1, u_kg_per_m2_per_s, u_mm_day, u_K}

\* the expected scalar coordinate records (and one that is not scalar)
ScalarRecords ==
    {[ExpectedCoord(n_plev19, "Z", s) EXCEPT !.value = v_500,
                                            !.d = Put(@, k_units, u)] :
        s \in BOOLEAN, u \in ScalarUnits}

\* the dataset coordinates: one value or two, with units or without
ScalarDsCoords ==
    {[dims |-> <<n_plev19>>, size |-> n, value |-> v,
      attrs |-> IF u = ATTR_NOT_FOUND THEN EmptyDict ELSE Put(EmptyDict, k_units, u)] :
        n \in {1, 2}, v \in {v_500, v_850}, u \in ScalarUnits \cup {ATTR_NOT_FOUND}}

\* a DatasetParser with skip_units as the configuration asks for it, an
\* expected scalar coordinate and the dataset coordinate it is matched to
InitScalarValue ==
    /\ d = EmptyDict
    /\ new_attr_d = EmptyDict
    /\ our_var \in ScalarRecords
    /\ ds_var \in ScalarDsCoords
    /\ skip_units \in BOOLEAN
    /\ call = NoCall
    /\ ret = None
    /\ logged = <<>>
    /\ exc = NoExc
    /\ dataset = EmptyDict
    /\ attrs_backup = EmptyDict
    /\ var_attrs_restore = EmptyDict
    /\ translated_var = EmptyDict
    /\ hist = <<>>
    /\ pc = "reconcile_scalar_value_and_units"

\* parser.reconcile_scalar_value_and_units(our_var, ds_var)
ReconcileScalarValueAndUnits ==
    /\ exc = NoExc
    /\ pc = "reconcile_scalar_value_and_units"
    /\ \E r \in {reconcile_scalar_value_and_units(our_var, ds_var, skip_units)} :
        /\ call' = Calling("reconcile_scalar_value_and_units", <<>>)
        /\ our_var' = r.our
        /\ ds_var' = r.ds
        /\ logged' = r.logged
        /\ exc' = r.exc
        /\ pc' = "done"
    /\ UNCHANGED <<d, new_attr_d, skip_units, ret, dataset, attrs_backup,
                   var_attrs_restore, translated_var, hist>>

NextScalarValue ==
    ReconcileScalarValueAndUnits

SpecScalarValue ==
    InitScalarValue /\ [][NextScalarValue]_vars

CalledReconcileScalarValueAndUnits ==
    call # NoCall /\ call.op = "reconcile_scalar_value_and_units"

\* the placeholder is on neither object
PlaceholderGone ==
    /\ attr_name_placeholder \notin DOMAIN our_var.d
    /\ attr_name_placeholder \notin DOMAIN ds_var.attrs

\* the record is as it was, or holds the dataset's value and units
CorrectionMoved ==
    \/ /\ our_var.value = call.our_var.value
       /\ UnitString(our_var.d[k_units]) = UnitString(call.our_var.d[k_units])
    \/ /\ our_var.value = call.ds_var.value
       /\ k_units \in DOMAIN call.ds_var.attrs
       /\ our_var.d[k_units] = to_cfunits(call.ds_var.attrs[k_units])

PlaceholderGoneByDefault ==
    (CalledReconcileScalarValueAndUnits /\ ~ skip_units) =>
        PlaceholderGone /\ CorrectionMoved

\* the value-only path keeps the placeholder exactly when the values differ
ValueOnlyPathKeepsPlaceholder ==
    (CalledReconcileScalarValueAndUnits /\ skip_units) =>
        (~ PlaceholderGone <=>
            /\ is_scalar(call.our_var)
            /\ call.ds_var.size = 1
            /\ k_units \notin DOMAIN call.ds_var.attrs
            /\ call.our_var.value # call.ds_var.value)

\* a correction was taken from the dataset and the placeholder removed
CorrectionTaken ==
    /\ CalledReconcileScalarValueAndUnits
    /\ PlaceholderGone
    /\ our_var.value # call.our_var.value
    /\ our_var.value = call.ds_var.value

====
